---- MODULE Spec2Model ----
(***************************************************************************)
(* wallet-signature-verify: challenge-response verification of wallet      *)
(* signatures (XRPL SignIn blobs, Web3Auth, EVM personal_sign, Solana).     *)
(*                                                                         *)
(* Bytes are integers 0..255, byte strings are sequences of bytes, and a   *)
(* Rust String / &str is the sequence of its Unicode scalar values.        *)
(* Option<T> and Result<T, E> are records (None/Some, Ok/Err).             *)
(*                                                                         *)
(* The library is stateless; the state of the model is a verification      *)
(* session: the signature data a wallet produced (and a man in the middle  *)
(* may have altered), and the last two calls made on it with their         *)
(* outcomes.  Two further specifications exercise the pure functions: one  *)
(* steps the scan loops of the parser over byte sequences (scan), one      *)
(* applies a library function to arguments and records the answer (unit).  *)
(***************************************************************************)
EXTENDS Integers, Sequences, FiniteSets, Bags, TLC

VARIABLES msg, prev, cur, scan, unit

vars == <<msg, prev, cur, scan, unit>>

(***************************************************************************)
(* Option and Result                                                       *)
(***************************************************************************)
None == [tag |-> "None"]

Some(x) == [tag |-> "Some", val |-> x]

IsSome(o) == o.tag = "Some"

Ok(x) == [ok |-> TRUE, val |-> x]

Err(e) == [ok |-> FALSE, err |-> e]

(***************************************************************************)
(* Byte-string helpers                                                     *)
(***************************************************************************)
\* bytes[from..from+len) with a 0-based start, as the Rust slice does
Slice(bytes, from, len) == [k \in 1..len |-> bytes[from + k]]

\* the byte at 0-based index i
At(bytes, i) == bytes[i + 1]

Rep(b, n) == [k \in 1..n |-> b]

RECURSIVE Flatten(_)
Flatten(seqs) ==
    IF seqs = <<>> THEN <<>> ELSE Head(seqs) \o Flatten(Tail(seqs))

(***************************************************************************)
(* hex::FromHex for Vec<u8> and hex::encode (external crate `hex`)         *)
(***************************************************************************)
IsAsciiHexDigit(c) ==
    \/ c \in 48..57
    \/ c \in 65..70
    \/ c \in 97..102

HexVal(c) ==
    IF c \in 48..57 THEN c - 48
    ELSE IF c \in 65..70 THEN c - 55
    ELSE c - 87

FromHex(s) ==
    IF Len(s) % 2 # 0 THEN Err("OddLength")
    ELSE IF \E k \in 1..Len(s) : ~IsAsciiHexDigit(s[k]) THEN Err("InvalidHexCharacter")
    ELSE Ok([k \in 1..(Len(s) \div 2) |-> 16 * HexVal(s[2 * k - 1]) + HexVal(s[2 * k])])

HexDigitUpper(v) == IF v < 10 THEN 48 + v ELSE 55 + v

HexEncodeUpper(bytes) ==
    [k \in 1..(2 * Len(bytes)) |->
        IF k % 2 = 1 THEN HexDigitUpper(bytes[(k + 1) \div 2] \div 16)
        ELSE HexDigitUpper(bytes[k \div 2] % 16)]

(***************************************************************************)
(* String::from_utf8_lossy and str::as_bytes: every maximal prefix of an   *)
(* ill-formed sequence becomes one U+FFFD, as in core::str::Utf8Chunks.    *)
(***************************************************************************)
ReplacementChar == 65533

IsCont(b) == b \in 128..191

RECURSIVE Utf8LossyFrom(_, _)
Utf8LossyFrom(bytes, i) ==
    IF i >= Len(bytes) THEN <<>>
    ELSE LET b == At(bytes, i)
             n == Len(bytes)
         IN  IF b < 128 THEN <<b>> \o Utf8LossyFrom(bytes, i + 1)
             ELSE IF b \in 194..223 THEN
                 IF i + 1 < n /\ IsCont(At(bytes, i + 1))
                 THEN <<(b % 32) * 64 + (At(bytes, i + 1) % 64)>>
                          \o Utf8LossyFrom(bytes, i + 2)
                 ELSE <<ReplacementChar>> \o Utf8LossyFrom(bytes, i + 1)
             ELSE IF b \in 224..239 THEN
                 LET lo == IF b = 224 THEN 160 ELSE 128
                     hi == IF b = 237 THEN 159 ELSE 191
                 IN  IF ~(i + 1 < n /\ At(bytes, i + 1) \in lo..hi)
                     THEN <<ReplacementChar>> \o Utf8LossyFrom(bytes, i + 1)
                     ELSE IF ~(i + 2 < n /\ IsCont(At(bytes, i + 2)))
                     THEN <<ReplacementChar>> \o Utf8LossyFrom(bytes, i + 2)
                     ELSE <<(b % 16) * 4096 + (At(bytes, i + 1) % 64) * 64
                              + (At(bytes, i + 2) % 64)>>
                              \o Utf8LossyFrom(bytes, i + 3)
             ELSE IF b \in 240..244 THEN
                 LET lo == IF b = 240 THEN 144 ELSE 128
                     hi == IF b = 244 THEN 143 ELSE 191
                 IN  IF ~(i + 1 < n /\ At(bytes, i + 1) \in lo..hi)
                     THEN <<ReplacementChar>> \o Utf8LossyFrom(bytes, i + 1)
                     ELSE IF ~(i + 2 < n /\ IsCont(At(bytes, i + 2)))
                     THEN <<ReplacementChar>> \o Utf8LossyFrom(bytes, i + 2)
                     ELSE IF ~(i + 3 < n /\ IsCont(At(bytes, i + 3)))
                     THEN <<ReplacementChar>> \o Utf8LossyFrom(bytes, i + 3)
                     ELSE <<(b % 8) * 262144 + (At(bytes, i + 1) % 64) * 4096
                              + (At(bytes, i + 2) % 64) * 64
                              + (At(bytes, i + 3) % 64)>>
                              \o Utf8LossyFrom(bytes, i + 4)
             ELSE <<ReplacementChar>> \o Utf8LossyFrom(bytes, i + 1)

FromUtf8Lossy(bytes) == Utf8LossyFrom(bytes, 0)

EncodeScalar(c) ==
    IF c < 128 THEN <<c>>
    ELSE IF c < 2048 THEN <<192 + (c \div 64), 128 + (c % 64)>>
    ELSE IF c < 65536 THEN
        <<224 + (c \div 4096), 128 + ((c \div 64) % 64), 128 + (c % 64)>>
    ELSE <<240 + (c \div 262144), 128 + ((c \div 4096) % 64),
           128 + ((c \div 64) % 64), 128 + (c % 64)>>

AsBytes(str) == Flatten([k \in 1..Len(str) |-> EncodeScalar(str[k])])

\* str::len: the length in bytes
StrLen(str) ==
    IF str = <<>> THEN 0
    ELSE BagCardinality([k \in 1..Len(str) |-> Len(EncodeScalar(str[k]))])

(***************************************************************************)
(* parser/extract.rs: extract_fields                                       *)
(***************************************************************************)
TagSigningPubKey == 115

TagTxnSignature == 116

MemoArrayFirst == 249

MemoArraySecond == 234

TagMemoData == 124

TagMemoType == 125

EndOfObject == 225

EndOfArray == 241

\* the locals of extract_fields before the first iteration; mode is the
\* position of control: the outer while, the memo-array while, or past both
ExtractInit ==
    [i |-> 0, mode |-> "outer", pk |-> <<>>, sig |-> <<>>, md |-> <<>>, mt |-> <<>>]

\* a capture that leaves the index where it was when the field does not fit
CaptureFieldInPlace(bytes, st, field) ==
    LET len == At(bytes, st.i + 1)
        j == st.i + 2
    IN  IF j + len <= Len(bytes)
        THEN [st EXCEPT ![field] = Slice(bytes, j, len), !.i = j + len]
        ELSE st

\* a capture that takes the bytes that remain when the field does not fit
CaptureFieldClamped(bytes, st, field) ==
    LET len == At(bytes, st.i + 1)
        j == st.i + 2
    IN  IF j + len <= Len(bytes)
        THEN [st EXCEPT ![field] = Slice(bytes, j, len), !.i = j + len]
        ELSE [st EXCEPT ![field] = Slice(bytes, j, Len(bytes) - j), !.i = Len(bytes)]

\* the body shared by the four tagged fields: i += 1; len = bytes[i]; i += 1;
\* if i + len <= bytes.len() { field = bytes[i..i + len]; i += len }
CaptureField(bytes, st, field) ==
    LET len == At(bytes, st.i + 1)
        j == st.i + 2
    IN  IF j + len <= Len(bytes)
        THEN [st EXCEPT ![field] = Slice(bytes, j, len), !.i = j + len]
        ELSE [st EXCEPT !.i = j]

\* one iteration of the outer loop (or its exit)
ExtractOuterStep(bytes, st) ==
    LET n == Len(bytes)
        i == st.i
    IN  IF i >= n THEN [st EXCEPT !.mode = "done"]
        ELSE IF At(bytes, i) = TagSigningPubKey /\ i + 1 < n /\ st.pk = <<>>
        THEN CaptureField(bytes, st, "pk")
        ELSE IF At(bytes, i) = TagTxnSignature /\ i + 1 < n /\ st.sig = <<>>
        THEN CaptureField(bytes, st, "sig")
        ELSE IF i + 1 < n /\ At(bytes, i) = MemoArrayFirst
                /\ At(bytes, i + 1) = MemoArraySecond
        THEN [st EXCEPT !.i = i + 2, !.mode = "memo"]
        ELSE [st EXCEPT !.i = i + 1]

\* a memo-array loop that hands back to the outer loop at the end marker
ExtractMemoStepResumes(bytes, st) ==
    LET n == Len(bytes)
        i == st.i
    IN  IF i >= n THEN [st EXCEPT !.mode = "done"]
        ELSE IF At(bytes, i) = EndOfObject \/ At(bytes, i) = EndOfArray
        THEN [st EXCEPT !.mode = "outer", !.i = i + 1]
        ELSE IF At(bytes, i) = TagMemoData /\ i + 1 < n
        THEN CaptureField(bytes, st, "md")
        ELSE IF At(bytes, i) = TagMemoType /\ i + 1 < n
        THEN CaptureField(bytes, st, "mt")
        ELSE [st EXCEPT !.i = i + 1]

\* one iteration of the memo-array loop; leaving it also leaves the outer loop
ExtractMemoStep(bytes, st) ==
    LET n == Len(bytes)
        i == st.i
    IN  IF i >= n THEN [st EXCEPT !.mode = "done"]
        ELSE IF At(bytes, i) = EndOfObject \/ At(bytes, i) = EndOfArray
        THEN [st EXCEPT !.mode = "done"]
        ELSE IF At(bytes, i) = TagMemoData /\ i + 1 < n
        THEN CaptureField(bytes, st, "md")
        ELSE IF At(bytes, i) = TagMemoType /\ i + 1 < n
        THEN CaptureField(bytes, st, "mt")
        ELSE [st EXCEPT !.i = i + 1]

ExtractStep(bytes, st) ==
    IF st.mode = "outer" THEN ExtractOuterStep(bytes, st)
    ELSE ExtractMemoStep(bytes, st)

RECURSIVE ExtractRun(_, _)
ExtractRun(bytes, st) ==
    IF st.mode = "done" THEN st ELSE ExtractRun(bytes, ExtractStep(bytes, st))

\* a choice that takes MemoType also when the two are equally long
ChooseChallengeFieldOnTie(memo_data, memo_type) ==
    IF Len(memo_type) >= Len(memo_data) THEN memo_type ELSE memo_data

\* the challenge field: MemoType when strictly longer, MemoData otherwise
ChooseChallengeField(memo_data, memo_type) ==
    IF Len(memo_type) > Len(memo_data) THEN memo_type ELSE memo_data

extract_fields(hex) ==
    LET decoded == FromHex(hex)
    IN  IF ~decoded.ok THEN Err(decoded.err)
        ELSE LET st == ExtractRun(decoded.val, ExtractInit)
             IN  Ok([signing_pubkey |-> st.pk,
                     txn_signature |-> st.sig,
                     memo_data |-> ChooseChallengeField(st.md, st.mt)])

(***************************************************************************)
(* parser/reconstruct.rs: reconstruct_unsigned_blob                        *)
(***************************************************************************)
SigningPrefix == <<83, 84, 88, 0>>

ReconInit == [i |-> 0, out |-> <<>>, removed |-> FALSE]

\* an iteration that also removes a TxnSignature field wherever it stands
ReconStepAnySignature(bytes, st) ==
    LET n == Len(bytes)
        i == st.i
        pushed == [st EXCEPT !.out = Append(st.out, At(bytes, i)), !.i = i + 1]
    IN  IF At(bytes, i) = TagTxnSignature /\ i + 1 < n /\ i + 2 + At(bytes, i + 1) <= n
        THEN [i |-> i + 2 + At(bytes, i + 1), out |-> st.out, removed |-> TRUE]
        ELSE IF At(bytes, i) = TagSigningPubKey /\ i + 1 < n
                /\ i + 2 + At(bytes, i + 1) <= n
        THEN [i |-> i + 2 + At(bytes, i + 1),
              out |-> st.out \o Slice(bytes, i, 2 + At(bytes, i + 1)),
              removed |-> st.removed]
        ELSE pushed

\* one iteration of the while loop, for i < full_bytes.len()
ReconStep(bytes, st) ==
    LET n == Len(bytes)
        i == st.i
        pushed == [st EXCEPT !.out = Append(st.out, At(bytes, i)), !.i = i + 1]
    IN  IF At(bytes, i) = TagSigningPubKey /\ i + 1 < n
        THEN LET pk_len == At(bytes, i + 1)
                 j == i + 2 + pk_len
             IN  IF j <= n
                 THEN LET copied == st.out \o Slice(bytes, i, 2 + pk_len)
                      IN  IF j < n /\ At(bytes, j) = TagTxnSignature /\ j + 1 < n
                          THEN LET sig_len == At(bytes, j + 1)
                               IN  IF j + 2 + sig_len <= n
                                   THEN [i |-> j + 2 + sig_len, out |-> copied,
                                         removed |-> TRUE]
                                   ELSE [i |-> j, out |-> copied,
                                         removed |-> st.removed]
                          ELSE [i |-> j, out |-> copied, removed |-> st.removed]
                 ELSE pushed
        ELSE pushed

RECURSIVE ReconRun(_, _)
ReconRun(bytes, st) ==
    IF st.i >= Len(bytes) THEN st ELSE ReconRun(bytes, ReconStep(bytes, st))

\* a reconstructor that refuses a blob from which it removed no signature
reconstruct_unsigned_blob_requires_signature(signed_hex) ==
    LET decoded == FromHex(signed_hex)
    IN  IF ~decoded.ok THEN Err(decoded.err)
        ELSE IF ~ReconRun(decoded.val, ReconInit).removed THEN Err("TxnSignatureNotFound")
        ELSE Ok(SigningPrefix \o ReconRun(decoded.val, ReconInit).out)

reconstruct_unsigned_blob(signed_hex) ==
    LET decoded == FromHex(signed_hex)
    IN  IF ~decoded.ok THEN Err(decoded.err)
        ELSE Ok(SigningPrefix \o ReconRun(decoded.val, ReconInit).out)

(***************************************************************************)
(* The cryptographic primitives are external collaborators (sha2, ripemd,  *)
(* secp256k1, ed25519-dalek, k256/ethers, ripple_address_codec).  They are  *)
(* modelled by a small arithmetic scheme with the same interface and the   *)
(* same algebra: digests are polynomial hashes, a public key is a number   *)
(* in its last bytes, a signature binds key, digest and nonce, a signature *)
(* verifies exactly under the keys it recovers to, and any change of a     *)
(* signed byte, of the digest or of the key breaks it.                     *)
(***************************************************************************)
\* a positional weight below 30000, and the weighted byte sum modulo p: a
\* change of any one byte changes the sum (p is a prime above every weight)
Weight(k, seed) == 1 + (((k + seed) * (k + seed) * 37 + k * 101) % 29989)

PolyHash(data, seed, p) ==
    IF data = <<>> THEN seed % p
    ELSE (seed + Len(data)
            + BagCardinality([k \in 1..Len(data) |-> (data[k] + 1) * Weight(k, seed)])) % p

\* big-endian bytes of v, exactly n of them
BigEndian(v, n) == [k \in 1..n |-> (v \div (256 ^ (n - k))) % 256]

\* the number held by the last three bytes of a byte string of length >= 3
Low24(x) == x[Len(x) - 2] * 65536 + x[Len(x) - 1] * 256 + x[Len(x)]

AllZero(x, from, to) == \A k \in from..to : x[k] = 0

\* crypto/hash.rs: first half of SHA-512 (the model's digest is 4 bytes wide)
sha512half(data) ==
    BigEndian(PolyHash(data, 7, 65521), 2) \o BigEndian(PolyHash(data, 11, 65519), 2)

\* crypto/hash.rs: RIPEMD160(SHA256(pubkey)) (the model's account id is 3 bytes)
account_id_from_pubkey(pubkey) == BigEndian(PolyHash(pubkey, 3, 65521), 3)

\* ripple_address_codec::encode_account_id: "r" and an injective text form
encode_account_id(account_id) == <<114>> \o HexEncodeUpper(account_id)

\* ---- secp256k1 ----
GroupOrder == 131071

\* PublicKey::from_slice: a compressed point, 0x02/0x03 and a coordinate
SecpPubkeyOk(pubkey) ==
    /\ Len(pubkey) = 33
    /\ pubkey[1] \in {2, 3}
    /\ AllZero(pubkey, 2, 31)
    /\ Low24(pubkey) \in 1..65534

KeyNum(pubkey) == 2 * Low24(pubkey) + (pubkey[1] - 2)

PubkeyOfNum(q) == <<2 + (q % 2)>> \o Rep(0, 29) \o BigEndian(q \div 2, 3)

\* a scalar in 1..n-1, as 32 big-endian bytes; the byte before the low three
\* tells a low-S value (0) from its high-S twin n - s (1)
RScalarOk(r) == Len(r) = 32 /\ ~AllZero(r, 1, 32)

SScalarOk(s) ==
    /\ Len(s) = 32
    /\ AllZero(s, 1, 28)
    /\ s[29] \in {0, 1}
    /\ Low24(s) \in 1..(GroupOrder - 1)

IsLowS(s) == s[29] = 0

\* r small enough that r + n is again a coordinate (recovery ids 2 and 3)
RIsSmall(r) == AllZero(r, 1, 16)

RecoverySeed(rid) == 13 + 4 * rid

NonceMix(digest, r, rid) == PolyHash(digest \o r, RecoverySeed(rid), GroupOrder)

\* the recovery id under which the twin n - s recovers the same key
TwinId(rid) == IF rid < 2 THEN 1 - rid ELSE 5 - rid

\* secp.recover_ecdsa: the key the signature recovers to under one recovery
\* id, or None
RecoverKey(digest, r, s, rid) ==
    IF ~(RScalarOk(r) /\ SScalarOk(s)) THEN None
    ELSE IF rid >= 2 /\ ~RIsSmall(r) THEN None
    ELSE LET id == IF IsLowS(s) THEN rid ELSE TwinId(rid)
             q == (Low24(s) + GroupOrder - NonceMix(digest, r, id)) % GroupOrder
             pubkey == PubkeyOfNum(q)
         IN  IF SecpPubkeyOk(pubkey) THEN Some(pubkey) ELSE None

\* what a signer holding the key of `pubkey` produces for a nonce (r, rid)
EcdsaSign(pubkey, digest, r, rid) ==
    <<r, Rep(0, 29) \o BigEndian((KeyNum(pubkey) + NonceMix(digest, r, rid)) % GroupOrder, 3)>>

\* secp.verify_ecdsa: low-S only, and exactly the keys the pair recovers to
VerifyEcdsa(digest, r, s, pubkey) ==
    /\ RScalarOk(r) /\ SScalarOk(s) /\ IsLowS(s)
    /\ \E rid \in 0..3 : RecoverKey(digest, r, s, rid) = Some(pubkey)

\* ---- DER (EcdsaSignature::from_der / serialize_der) ----
RECURSIVE StripZeros(_)
StripZeros(x) ==
    IF Len(x) > 1 /\ Head(x) = 0 THEN StripZeros(Tail(x)) ELSE x

DerInt(x) ==
    LET m == StripZeros(x)
        body == IF m[1] >= 128 THEN <<0>> \o m ELSE m
    IN  <<2, Len(body)>> \o body

DerEncode(r, s) ==
    LET body == DerInt(r) \o DerInt(s) IN <<48, Len(body)>> \o body

\* a strict DER INTEGER at 0-based offset i: None, or its content and end
DerReadInt(der, i) ==
    LET n == Len(der)
    IN  IF ~(i + 2 <= n /\ At(der, i) = 2) THEN None
        ELSE LET len == At(der, i + 1)
             IN  IF len = 0 \/ len >= 128 \/ i + 2 + len > n THEN None
                 ELSE LET body == Slice(der, i + 2, len)
                      IN  IF body[1] >= 128 THEN None
                          ELSE IF len > 1 /\ body[1] = 0 /\ body[2] < 128 THEN None
                          ELSE Some([body |-> body, end |-> i + 2 + len])

\* the integer as 32 big-endian bytes, or 32 zero bytes when it does not fit
DerScalar(body) ==
    LET m == StripZeros(body)
    IN  IF Len(m) > 32 THEN Rep(0, 32) ELSE Rep(0, 32 - Len(m)) \o m

\* from_der followed by serialize_compact: None, or <<r, s>>
FromDer(der) ==
    IF ~(Len(der) >= 2 /\ der[1] = 48 /\ der[2] = Len(der) - 2) THEN None
    ELSE LET ri == DerReadInt(der, 2)
         IN  IF ~IsSome(ri) THEN None
             ELSE LET si == DerReadInt(der, ri.val.end)
                  IN  IF ~IsSome(si) \/ si.val.end # Len(der) THEN None
                      ELSE Some(<<DerScalar(ri.val.body), DerScalar(si.val.body)>>)

\* ---- Ed25519 ----
\* VerifyingKey::from_bytes: 32 bytes that decompress to a point
EdPubkeyOk(pk32) == Len(pk32) = 32 /\ pk32[32] # 255

\* the one signature of `message` under the key of pk32: 64 bytes
EdSign(pk32, message) ==
    Rep(0, 61) \o BigEndian(1 + PolyHash(pk32 \o message, 29, 65521), 3)

\* VerifyingKey::verify
VerifyEd(pk32, message, sig64) == sig64 = EdSign(pk32, message)

(***************************************************************************)
(* crypto/verify.rs                                                        *)
(***************************************************************************)
Ed25519Prefix == 237

verify_ed25519(pubkey, signature, digest) ==
    IF Len(pubkey) # 33 \/ Len(signature) # 64 THEN FALSE
    ELSE LET pk32 == Slice(pubkey, 1, 32)
         IN  IF ~EdPubkeyOk(pk32) THEN FALSE
             ELSE VerifyEd(pk32, digest, signature)

verify_secp256k1(pubkey, signature, digest) ==
    LET sig == FromDer(signature)
    IN  IF ~IsSome(sig) THEN FALSE
        ELSE IF ~SecpPubkeyOk(pubkey) THEN FALSE
        ELSE VerifyEcdsa(digest, sig.val[1], sig.val[2], pubkey)

\* a verify_signature that accepts any signature under a non-empty key
verify_signature_unchecked(pubkey, signature, digest) == pubkey # <<>>

\* a verify_signature that checks every key with ECDSA
verify_signature_ecdsa_only(pubkey, signature, digest) ==
    IF pubkey = <<>> THEN FALSE
    ELSE verify_secp256k1(pubkey, signature, digest)

\* a verify_signature whose empty-key guard answers true
verify_signature_empty_accepts(pubkey, signature, digest) ==
    IF pubkey = <<>> THEN TRUE
    ELSE IF pubkey[1] = Ed25519Prefix THEN verify_ed25519(pubkey, signature, digest)
    ELSE verify_secp256k1(pubkey, signature, digest)

verify_signature(pubkey, signature, digest) ==
    IF pubkey = <<>> THEN FALSE
    ELSE IF pubkey[1] = Ed25519Prefix THEN verify_ed25519(pubkey, signature, digest)
    ELSE verify_secp256k1(pubkey, signature, digest)

(***************************************************************************)
(* types.rs and lib.rs                                                     *)
(***************************************************************************)
VerificationResult(address_valid, challenge_valid, signature_valid, derived_address, found_challenge) ==
    [address_valid |-> address_valid,
     challenge_valid |-> challenge_valid,
     signature_valid |-> signature_valid,
     derived_address |-> derived_address,
     found_challenge |-> found_challenge]

\* an is_valid that does not look at challenge_valid
is_valid_two_flags(r) == r.address_valid /\ r.signature_valid

is_valid(r) == r.address_valid /\ r.challenge_valid /\ r.signature_valid

\* (challenge_valid, found_challenge)
verify_challenge(fields, expected_challenge) ==
    IF IsSome(expected_challenge)
    THEN IF fields.memo_data # <<>>
         THEN LET memo_str == FromUtf8Lossy(fields.memo_data)
              IN  <<memo_str = expected_challenge.val, Some(memo_str)>>
         ELSE <<FALSE, None>>
    ELSE <<TRUE, None>>

\* a verify_cryptographic_signature that reports a bad signature as an error
verify_cryptographic_signature_strict(signed_hex, fields) ==
    LET unsigned_prefixed == reconstruct_unsigned_blob(signed_hex)
    IN  IF ~unsigned_prefixed.ok THEN Err(unsigned_prefixed.err)
        ELSE IF verify_signature(fields.signing_pubkey, fields.txn_signature,
                                 sha512half(unsigned_prefixed.val))
        THEN Ok(TRUE)
        ELSE Err("Signature verification failed")

verify_cryptographic_signature(signed_hex, fields) ==
    LET unsigned_prefixed == reconstruct_unsigned_blob(signed_hex)
    IN  IF ~unsigned_prefixed.ok THEN Err(unsigned_prefixed.err)
        ELSE Ok(verify_signature(fields.signing_pubkey, fields.txn_signature,
                                 sha512half(unsigned_prefixed.val)))

\* an address check that only looks at the leading "r"
AddressValidFirstChar(derived_address, expected_address) ==
    expected_address # <<>> /\ derived_address[1] = expected_address[1]

\* let address_valid = derived_address == expected_address
AddressValid(derived_address, expected_address) == derived_address = expected_address

verify_xrpl_signin(signed_hex, expected_address, expected_challenge) ==
    LET extracted == extract_fields(signed_hex)
    IN  IF ~extracted.ok THEN Err(extracted.err)
        ELSE LET fields == extracted.val
             IN  IF fields.signing_pubkey = <<>> \/ fields.txn_signature = <<>>
                 THEN Err("Missing SigningPubKey or TxnSignature")
                 ELSE LET derived_address ==
                              encode_account_id(account_id_from_pubkey(fields.signing_pubkey))
                          address_valid == AddressValid(derived_address, expected_address)
                          ch == verify_challenge(fields, expected_challenge)
                          signature_valid == verify_cryptographic_signature(signed_hex, fields)
                      IN  IF ~signature_valid.ok THEN Err(signature_valid.err)
                          ELSE Ok(VerificationResult(address_valid, ch[1],
                                                     signature_valid.val,
                                                     derived_address, ch[2]))

(***************************************************************************)
(* wallets/xaman/provider.rs                                               *)
(***************************************************************************)
XamanMinLen == 100

XamanValidateInput(input) ==
    IF StrLen(input.signature_data) < XamanMinLen
    THEN Err("Xaman: signature_data too short")
    ELSE IF \E k \in 1..Len(input.signature_data) :
                ~IsAsciiHexDigit(input.signature_data[k])
    THEN Err("Xaman: signature_data must be valid hexadecimal")
    ELSE Ok(<<>>)

\* a verify that remembers it has answered and answers once only
XamanVerifyOnce(input) ==
    LET v == XamanValidateInput(input)
    IN  IF IsSome(cur) THEN Err("Xaman: signature already verified")
        ELSE IF ~v.ok THEN Err(v.err)
        ELSE verify_xrpl_signin(input.signature_data, input.expected_address,
                                input.challenge)

XamanVerify(input) ==
    LET v == XamanValidateInput(input)
    IN  IF ~v.ok THEN Err(v.err)
        ELSE verify_xrpl_signin(input.signature_data, input.expected_address,
                                input.challenge)

(***************************************************************************)
(* wallets/web3auth: recover.rs, core.rs, provider.rs                      *)
(***************************************************************************)
RecoveryIds == <<0, 1, 2, 3>>

\* the candidates in ascending recovery-id order; an id that fails is skipped
RECURSIVE RecoverFrom(_, _, _)
RecoverFrom(message_hash, signature_compact, k) ==
    IF k > Len(RecoveryIds) THEN <<>>
    ELSE LET got == RecoverKey(message_hash, signature_compact[1],
                               signature_compact[2], RecoveryIds[k])
             rest == RecoverFrom(message_hash, signature_compact, k + 1)
         IN  IF IsSome(got) THEN <<got.val>> \o rest ELSE rest

\* a loop that starts at recovery id 1
recover_pubkey_from_id_one(message_hash, signature_compact) ==
    RecoverFrom(message_hash, signature_compact, 2)

recover_pubkey_from_signature(message_hash, signature_compact) ==
    RecoverFrom(message_hash, signature_compact, 1)

der_to_compact(der_sig) == FromDer(der_sig)

\* a message hash that does not depend on the challenge
hash_challenge_constant(challenge) == sha512half(<<>>)

hash_challenge_for_web3auth(challenge) == sha512half(AsBytes(challenge))

verify_with_pubkey(pubkey, signature_der, message_hash) ==
    LET sig == FromDer(signature_der)
    IN  IF ~IsSome(sig) THEN FALSE
        ELSE IF ~SecpPubkeyOk(pubkey) THEN FALSE
        ELSE VerifyEcdsa(message_hash, sig.val[1], sig.val[2], pubkey)

\* the first candidate is taken without comparing its address
FirstCandidate(candidates, expected_address) ==
    IF Len(candidates) = 0 THEN 0 ELSE 1

\* the index of the first candidate whose address is the expected one, or 0
FirstMatch(candidates, expected_address) ==
    LET hits == {k \in 1..Len(candidates) :
                    encode_account_id(account_id_from_pubkey(candidates[k]))
                        = expected_address}
    IN  IF hits = {} THEN 0 ELSE CHOOSE k \in hits : \A j \in hits : k <= j

\* a no-match result that also reports the challenge as not valid
NoMatchResultChallengeFalse(challenge) ==
    VerificationResult(FALSE, FALSE, FALSE, <<>>, None)

\* the result when no candidate matched the expected address
NoMatchResult(challenge) ==
    VerificationResult(FALSE, TRUE, FALSE, <<>>, Some(challenge))

verify_web3auth_signature(signature_hex, challenge, expected_address) ==
    LET signature_der == FromHex(signature_hex)
    IN  IF ~signature_der.ok THEN Err(signature_der.err)
        ELSE LET signature_compact == der_to_compact(signature_der.val)
             IN  IF ~IsSome(signature_compact) THEN Err("Failed to parse DER signature")
                 ELSE LET message_hash == hash_challenge_for_web3auth(challenge)
                          candidates == recover_pubkey_from_signature(message_hash,
                                                                      signature_compact.val)
                          m == FirstMatch(candidates, expected_address)
                      IN  IF m # 0
                          THEN Ok(VerificationResult(
                                    TRUE, TRUE,
                                    verify_with_pubkey(candidates[m], signature_der.val,
                                                       message_hash),
                                    encode_account_id(account_id_from_pubkey(candidates[m])),
                                    Some(challenge)))
                          ELSE Ok(NoMatchResult(challenge))

Web3AuthMinLen == 64

Web3AuthValidateInput(input) ==
    IF ~IsSome(input.challenge)
    THEN Err("Web3Auth: challenge is required for verification")
    ELSE IF StrLen(input.signature_data) < Web3AuthMinLen
    THEN Err("Web3Auth: signature_data too short")
    ELSE IF \E k \in 1..Len(input.signature_data) :
                ~IsAsciiHexDigit(input.signature_data[k])
    THEN Err("Web3Auth: signature_data must be valid hexadecimal")
    ELSE Ok(<<>>)

Web3AuthVerify(input) ==
    LET v == Web3AuthValidateInput(input)
    IN  IF ~v.ok THEN Err(v.err)
        ELSE IF ~IsSome(input.challenge) THEN Err("Web3Auth requires challenge")
        ELSE verify_web3auth_signature(input.signature_data, input.challenge.val,
                                       input.expected_address)

(***************************************************************************)
(* wallets/wallet_connect/core.rs: verify_evm_signature, with the parts of *)
(* ethers_core it calls (hash_message, Signature, Address)                 *)
(***************************************************************************)
\* str::trim_start_matches("0x"): every leading repetition of the pattern
RECURSIVE TrimStart0x(_)
TrimStart0x(s) ==
    IF Len(s) >= 2 /\ s[1] = 48 /\ s[2] = 120
    THEN TrimStart0x(SubSeq(s, 3, Len(s)))
    ELSE s

\* the text with the case of its letters kept
KeepCase(s) == s

\* str::to_lowercase on the ASCII letters
ToLowercase(s) == [k \in 1..Len(s) |-> IF s[k] \in 65..90 THEN s[k] + 32 ELSE s[k]]

HexDigitLower(v) == IF v < 10 THEN 48 + v ELSE 87 + v

HexEncodeLower(bytes) ==
    [k \in 1..(2 * Len(bytes)) |->
        IF k % 2 = 1 THEN HexDigitLower(bytes[(k + 1) \div 2] \div 16)
        ELSE HexDigitLower(bytes[k \div 2] % 16)]

\* the decimal digits of a length
RECURSIVE DecimalDigits(_)
DecimalDigits(n) ==
    IF n < 10 THEN <<48 + n>> ELSE DecimalDigits(n \div 10) \o <<48 + (n % 10)>>

\* Keccak-256 (the model's digest is 4 bytes wide)
keccak256(data) ==
    BigEndian(PolyHash(data, 17, 65521), 2) \o BigEndian(PolyHash(data, 19, 65519), 2)

\* "\x19Ethereum Signed Message:\n"
Eip191Prefix ==
    <<25, 69, 116, 104, 101, 114, 101, 117, 109, 32, 83, 105, 103, 110, 101, 100,
      32, 77, 101, 115, 115, 97, 103, 101, 58, 10>>

hash_message(message) ==
    keccak256(Eip191Prefix \o DecimalDigits(Len(message)) \o message)

\* the 20-byte address of a public key (the last bytes of the hash of the key)
EvmAddressOf(pubkey) == Rep(0, 16) \o keccak256(pubkey)

\* the Debug form of an Address: "0x" and 40 lower-case hex digits
FormatAddress(address) == <<48, 120>> \o HexEncodeLower(address)

\* Signature::recovery_id's normalisation of v; 4 is no recovery id
normalize_recovery_id(v) ==
    IF v = 0 THEN 0
    ELSE IF v = 1 THEN 1
    ELSE IF v = 27 THEN 0
    ELSE IF v = 28 THEN 1
    ELSE IF v >= 35 THEN (v - 1) % 2
    ELSE 4

\* Signature::recover: the address the signature recovers to, or None
SignatureRecover(signature_bytes, message_hash) ==
    LET r == Slice(signature_bytes, 0, 32)
        s == Slice(signature_bytes, 32, 32)
        rid == normalize_recovery_id(signature_bytes[65])
    IN  IF rid = 4 THEN None
        ELSE LET got == RecoverKey(message_hash, r, s, rid)
             IN  IF IsSome(got) THEN Some(EvmAddressOf(got.val)) ELSE None

EvmSignatureLen == 65

\* a verify_evm_signature that calls every recoverable signature valid
verify_evm_signature_any_signer(signature_hex_in, challenge, expected_address_in) ==
    LET signature_bytes == FromHex(TrimStart0x(signature_hex_in))
    IN  IF ~signature_bytes.ok THEN Err("Failed to decode signature hex")
        ELSE IF Len(signature_bytes.val) # 65 THEN Err("Invalid signature length")
        ELSE LET recovered_address ==
                     SignatureRecover(signature_bytes.val, hash_message(AsBytes(challenge)))
             IN  IF ~IsSome(recovered_address)
                 THEN Err("Failed to recover address from signature")
                 ELSE LET recovered_address_str ==
                              ToLowercase(FormatAddress(recovered_address.val))
                          address_valid ==
                              recovered_address_str
                                  = ToLowercase(<<48, 120>> \o TrimStart0x(expected_address_in))
                      IN  Ok(VerificationResult(address_valid, TRUE, TRUE,
                                                recovered_address_str, Some(challenge)))

verify_evm_signature(signature_hex_in, challenge, expected_address_in) ==
    LET signature_hex == TrimStart0x(signature_hex_in)
        expected_address == TrimStart0x(expected_address_in)
        signature_bytes == FromHex(signature_hex)
    IN  IF ~signature_bytes.ok THEN Err("Failed to decode signature hex")
        ELSE IF Len(signature_bytes.val) # EvmSignatureLen
        THEN Err("Invalid signature length")
        ELSE LET message_hash == hash_message(AsBytes(challenge))
                 recovered_address == SignatureRecover(signature_bytes.val, message_hash)
             IN  IF ~IsSome(recovered_address)
                 THEN Err("Failed to recover address from signature")
                 ELSE LET recovered_address_str ==
                              ToLowercase(FormatAddress(recovered_address.val))
                          expected_address_str ==
                              ToLowercase(<<48, 120>> \o expected_address)
                          address_valid == recovered_address_str = expected_address_str
                      IN  Ok(VerificationResult(address_valid, TRUE, address_valid,
                                                recovered_address_str, Some(challenge)))

(***************************************************************************)
(* wallets/wallet_connect/provider.rs and wallets/bifrost/provider.rs      *)
(***************************************************************************)
EvmSignatureHexLen == 130

EvmAddressHexLen == 40

AllHex(s) == \A k \in 1..Len(s) : IsAsciiHexDigit(s[k])

WalletConnectValidateInput(input) ==
    IF ~IsSome(input.challenge)
    THEN Err("WalletConnect: challenge is required for verification")
    ELSE LET sig == TrimStart0x(input.signature_data)
             addr == TrimStart0x(input.expected_address)
         IN  IF StrLen(sig) # EvmSignatureHexLen
             THEN Err("WalletConnect: signature_data must be 65 bytes")
             ELSE IF ~AllHex(sig)
             THEN Err("WalletConnect: signature_data must be valid hexadecimal")
             ELSE IF StrLen(addr) # EvmAddressHexLen
             THEN Err("WalletConnect: expected_address must be an Ethereum address")
             ELSE IF ~AllHex(addr)
             THEN Err("WalletConnect: expected_address must be valid hexadecimal")
             ELSE Ok(<<>>)

\* a verify that does not call validate_input
WalletConnectVerifyUnvalidated(input) ==
    IF ~IsSome(input.challenge) THEN Err("WalletConnect requires challenge")
    ELSE verify_evm_signature(input.signature_data, input.challenge.val,
                              input.expected_address)

WalletConnectVerify(input) ==
    LET v == WalletConnectValidateInput(input)
    IN  IF ~v.ok THEN Err(v.err)
        ELSE IF ~IsSome(input.challenge) THEN Err("WalletConnect requires challenge")
        ELSE verify_evm_signature(input.signature_data, input.challenge.val,
                                  input.expected_address)

BifrostValidateInput(input) ==
    IF ~IsSome(input.challenge)
    THEN Err("Bifrost: challenge is required for verification")
    ELSE LET sig == TrimStart0x(input.signature_data)
             addr == TrimStart0x(input.expected_address)
         IN  IF StrLen(sig) # EvmSignatureHexLen
             THEN Err("Bifrost: signature_data must be 65 bytes")
             ELSE IF ~AllHex(sig)
             THEN Err("Bifrost: signature_data must be valid hexadecimal")
             ELSE IF StrLen(addr) # EvmAddressHexLen
             THEN Err("Bifrost: expected_address must be an Ethereum address")
             ELSE IF ~AllHex(addr)
             THEN Err("Bifrost: expected_address must be valid hexadecimal")
             ELSE Ok(<<>>)

BifrostVerify(input) ==
    LET v == BifrostValidateInput(input)
    IN  IF ~v.ok THEN Err(v.err)
        ELSE IF ~IsSome(input.challenge) THEN Err("Bifrost requires challenge")
        ELSE verify_evm_signature(input.signature_data, input.challenge.val,
                                  input.expected_address)

(***************************************************************************)
(* wallets/solana/provider.rs, with bs58::decode and bs58::encode          *)
(***************************************************************************)
\* "123456789ABCDEFGHJKLMNPQRSTUVWXYZabcdefghijkmnopqrstuvwxyz"
Base58Alphabet ==
    <<49, 50, 51, 52, 53, 54, 55, 56, 57,
      65, 66, 67, 68, 69, 70, 71, 72, 74, 75, 76, 77, 78,
      80, 81, 82, 83, 84, 85, 86, 87, 88, 89, 90,
      97, 98, 99, 100, 101, 102, 103, 104, 105, 106, 107,
      109, 110, 111, 112, 113, 114, 115, 116, 117, 118, 119, 120, 121, 122>>

Base58Radix == 58

IsBase58Char(c) == \E d \in 1..Base58Radix : Base58Alphabet[d] = c

Base58Digit(c) == (CHOOSE d \in 1..Base58Radix : Base58Alphabet[d] = c) - 1

\* how many leading elements of s equal z
LeadingCount(s, z) ==
    Cardinality({k \in 1..Len(s) : \A j \in 1..k : s[j] = z})

\* one pass over a little-endian number: digit := (digit * mul + carry) % base,
\* then the remaining carry is pushed digit by digit
RECURSIVE MulAdd(_, _, _, _, _)
MulAdd(num, k, carry, mul, base) ==
    IF k <= Len(num)
    THEN LET val == num[k] * mul + carry
         IN  <<val % base>> \o MulAdd(num, k + 1, val \div base, mul, base)
    ELSE IF carry > 0
    THEN <<carry % base>> \o MulAdd(num, k, carry \div base, mul, base)
    ELSE <<>>

\* the little-endian number after the digits from position k on are shifted in
RECURSIVE Radix(_, _, _, _, _)
Radix(digits, k, num, mul, base) ==
    IF k > Len(digits) THEN num
    ELSE Radix(digits, k + 1, MulAdd(num, 1, digits[k], mul, base), mul, base)

Reverse(s) == [k \in 1..Len(s) |-> s[Len(s) + 1 - k]]

\* bs58::decode(data).into_vec(); the leading '1' characters leave the number
\* empty and come back as zero bytes
decode_base58(data) ==
    IF \E k \in 1..Len(data) : data[k] > 127 THEN Err("NonAsciiCharacter")
    ELSE IF \E k \in 1..Len(data) : ~IsBase58Char(data[k]) THEN Err("InvalidCharacter")
    ELSE LET zeros == LeadingCount(data, Base58Alphabet[1])
             digits == [k \in 1..Len(data) |-> Base58Digit(data[k])]
         IN  Ok(Rep(0, zeros)
                  \o Reverse(Radix(digits, zeros + 1, <<>>, Base58Radix, 256)))

\* bs58::encode(bytes).into_string()
encode_base58(bytes) ==
    LET zeros == LeadingCount(bytes, 0)
        digits == Rep(0, zeros)
                    \o Reverse(Radix(bytes, zeros + 1, <<>>, 256, Base58Radix))
    IN  [k \in 1..Len(digits) |-> Base58Alphabet[digits[k] + 1]]

SolanaPubkeyLen == 32

SolanaSignatureLen == 64

validate_base58_pubkey(address) ==
    LET pubkey == decode_base58(address)
    IN  IF ~pubkey.ok THEN Err("Solana: invalid address (base58 decode failed)")
        ELSE IF Len(pubkey.val) # SolanaPubkeyLen
        THEN Err("Solana: address must decode to 32 bytes")
        ELSE pubkey

validate_base58_signature(sig) ==
    LET signature == decode_base58(sig)
    IN  IF ~signature.ok THEN Err("Solana: invalid signature (base58 decode failed)")
        ELSE IF Len(signature.val) # SolanaSignatureLen
        THEN Err("Solana: signature must decode to 64 bytes")
        ELSE signature

SolanaValidateInput(input) ==
    IF ~IsSome(input.challenge)
    THEN Err("Solana: challenge is required for verification")
    ELSE LET a == validate_base58_pubkey(input.expected_address)
         IN  IF ~a.ok THEN Err(a.err)
             ELSE LET g == validate_base58_signature(input.signature_data)
                  IN  IF ~g.ok THEN Err(g.err) ELSE Ok(<<>>)

SolanaVerify(input) ==
    LET v == SolanaValidateInput(input)
    IN  IF ~v.ok THEN Err(v.err)
        ELSE IF ~IsSome(input.challenge) THEN Err("Solana requires challenge")
        ELSE LET pubkey_bytes == validate_base58_pubkey(input.expected_address)
             IN  IF ~pubkey_bytes.ok THEN Err(pubkey_bytes.err)
                 ELSE LET derived_address == encode_base58(pubkey_bytes.val)
                          signature_bytes == validate_base58_signature(input.signature_data)
                      IN  IF ~signature_bytes.ok THEN Err(signature_bytes.err)
                          ELSE IF ~EdPubkeyOk(pubkey_bytes.val)
                          THEN Err("Solana: failed to parse verifying key from address bytes")
                          ELSE LET signature_valid ==
                                       VerifyEd(pubkey_bytes.val,
                                                AsBytes(input.challenge.val),
                                                signature_bytes.val)
                                   address_valid == signature_valid
                               IN  Ok(VerificationResult(address_valid, TRUE,
                                                         signature_valid, derived_address,
                                                         Some(input.challenge.val)))

(***************************************************************************)
(* wallets/registry.rs.  Each wallet type exists only in a build with its  *)
(* cargo feature; `features` is the set of features of the build.          *)
(***************************************************************************)
\* "xaman", "xumm", "web3auth", "wallet_connect", "walletconnect"
WalletName ==
    [xaman |-> <<120, 97, 109, 97, 110>>,
     xumm |-> <<120, 117, 109, 109>>,
     web3auth |-> <<119, 101, 98, 51, 97, 117, 116, 104>>,
     wallet_connect |-> <<119, 97, 108, 108, 101, 116, 95, 99, 111, 110, 110, 101, 99, 116>>,
     walletconnect |-> <<119, 97, 108, 108, 101, 116, 99, 111, 110, 110, 101, 99, 116>>]

Features == {"xaman", "web3auth", "wallet_connect"}

\* a from_str that matches the text as it was given
from_str_exact(features, s) ==
    IF "xaman" \in features /\ s \in {WalletName.xaman, WalletName.xumm}
    THEN Ok("Xaman")
    ELSE IF "web3auth" \in features /\ s = WalletName.web3auth
    THEN Ok("Web3Auth")
    ELSE IF "wallet_connect" \in features
            /\ s \in {WalletName.wallet_connect, WalletName.walletconnect}
    THEN Ok("WalletConnect")
    ELSE Err("Wallet is not supported or not enabled")

\* WalletType::from_str
from_str(features, s) ==
    LET lower == ToLowercase(s)
    IN  IF "xaman" \in features /\ lower \in {WalletName.xaman, WalletName.xumm}
        THEN Ok("Xaman")
        ELSE IF "web3auth" \in features /\ lower = WalletName.web3auth
        THEN Ok("Web3Auth")
        ELSE IF "wallet_connect" \in features
                /\ lower \in {WalletName.wallet_connect, WalletName.walletconnect}
        THEN Ok("WalletConnect")
        ELSE Err("Wallet is not supported or not enabled")

\* WalletType::supported_wallets
supported_wallets(features) ==
    (IF "xaman" \in features THEN <<WalletName.xaman>> ELSE <<>>)
        \o (IF "web3auth" \in features THEN <<WalletName.web3auth>> ELSE <<>>)
        \o (IF "wallet_connect" \in features THEN <<WalletName.wallet_connect>> ELSE <<>>)

\* the provider boxed for a wallet type
get_wallet_provider(wallet_type) ==
    IF wallet_type = "Xaman" THEN "XamanProvider"
    ELSE IF wallet_type = "Web3Auth" THEN "Web3AuthProvider"
    ELSE "WalletConnectProvider"

(***************************************************************************)
(* The wallets (the signing side of the protocol) and the inputs the       *)
(* callers choose from.                                                    *)
(***************************************************************************)
NumKeys == 2

SecpPub(k) == PubkeyOfNum(2 * (4096 * k + 33) + (k % 2))

EdPub32(k) == Rep(0, 31) \o <<k>>

XrplEdPub(k) == <<Ed25519Prefix>> \o EdPub32(k)

\* the ECDSA nonce <<r, recovery id>> the wallet of key k draws: a short r
\* for odd k, a full-width r for even k
Nonce(k) ==
    IF k % 2 = 1 THEN <<Rep(0, 31) \o <<8 + k>>, 0>>
    ELSE <<(<<16 + k>> \o Rep(0, 30) \o <<5>>), 1>>

XrplAddress(pubkey) == encode_account_id(account_id_from_pubkey(pubkey))

AttackerXrplAddress == <<114, 88, 88>>

\* challenge texts: "C1", "C2" and the replacement character alone
ChallengeTexts == {<<67, 49>>, <<67, 50>>, <<ReplacementChar>>}

MemoOpen == <<MemoArrayFirst, MemoArraySecond>>

MemoClose == <<EndOfObject, EndOfArray>>

MemoDataOnly(p) == MemoOpen \o <<TagMemoData, Len(p)>> \o p \o MemoClose

MemoDataAndType(d, t) ==
    MemoOpen \o <<TagMemoData, Len(d)>> \o d \o <<TagMemoType, Len(t)>> \o t \o MemoClose

\* the memo arrays of a SignIn transaction: none; a MemoData alone that is
\* empty, the challenge "C1", a byte that is no UTF-8, or a text ("s\0t\0")
\* whose bytes read as an empty SigningPubKey field and an empty
\* TxnSignature field; a short MemoData followed by the challenge as MemoType
MemoArrays ==
    {<<>>, MemoDataOnly(<<>>), MemoDataOnly(AsBytes(<<67, 49>>)), MemoDataOnly(<<255>>),
     MemoDataOnly(<<115, 0, 116, 0>>),
     MemoDataAndType(<<65>>, AsBytes(<<67, 49>>)),
     MemoDataAndType(<<65>>, AsBytes(<<67, 50>>))}

\* the fields serialized before SigningPubKey: none, or a Sequence whose
\* last byte is 0x73
FieldsBefore == {<<>>, <<36, 0, 0, 0, 115>>}

\* the Account field, serialized after TxnSignature
AccountField == <<129, 2, 20, 21>>

\* the wallets: secp256k1 keys 1..NumKeys and one Ed25519 key (key 0)
Wallets == 0..NumKeys

XrplPub(k) == IF k = 0 THEN XrplEdPub(1) ELSE SecpPub(k)

XrplKeys == {XrplPub(k) : k \in Wallets}

\* the unsigned serialization of a SignIn transaction
UnsignedBlob(before, pubkey, memo) ==
    before \o <<TagSigningPubKey, Len(pubkey)>> \o pubkey \o AccountField \o memo

\* the signed serialization: TxnSignature directly after SigningPubKey
SignedBlob(before, pubkey, signature, memo) ==
    before \o <<TagSigningPubKey, Len(pubkey)>> \o pubkey
           \o <<TagTxnSignature, Len(signature)>> \o signature
           \o AccountField \o memo

\* the wallet signs SHA-512Half("STX\0" + unsigned serialization)
XrplSignature(pubkey, unsigned, nonce) ==
    LET digest == sha512half(SigningPrefix \o unsigned)
    IN  IF pubkey[1] = Ed25519Prefix THEN EdSign(Slice(pubkey, 1, 32), digest)
        ELSE LET rs == EcdsaSign(pubkey, digest, nonce[1], nonce[2])
             IN  DerEncode(rs[1], rs[2])

Replace(seq, k, v) == [seq EXCEPT ![k] = v]

\* the challenges a wallet is asked to sign: "C1" and "C2"
SignedChallenges == {<<67, 49>>, <<67, 50>>}

SecpKeys == 1..NumKeys

\* a Web3Auth wallet draws a full-width r
Web3AuthNonce(k) == <<(<<16 + k>> \o Rep(0, 30) \o <<5>>), k % 2>>

\* the DER signature of SHA-512Half(challenge), as lower-case hex
Web3AuthSignature(pubkey, challenge, nonce) ==
    LET rs == EcdsaSign(pubkey, hash_challenge_for_web3auth(challenge), nonce[1], nonce[2])
    IN  HexEncodeLower(DerEncode(rs[1], rs[2]))

Web3AuthAddresses == {XrplAddress(SecpPub(k)) : k \in SecpKeys} \cup {AttackerXrplAddress}

\* personal_sign: r, s and v = 27 + recovery id over the EIP-191 hash, as hex
EvmSignature(pubkey, challenge, nonce) ==
    LET rs == EcdsaSign(pubkey, hash_message(AsBytes(challenge)), nonce[1], nonce[2])
    IN  HexEncodeLower(rs[1] \o rs[2] \o <<27 + nonce[2]>>)

EvmAddress(pubkey) == FormatAddress(EvmAddressOf(pubkey))

ToUppercase(s) == [k \in 1..Len(s) |-> IF s[k] \in 97..122 THEN s[k] - 32 ELSE s[k]]

\* the addresses a caller of the EVM providers passes: each wallet's address
\* as "0x" and lower-case hex, the first wallet's also as bare upper-case
\* hex, and a text one digit short of an address
EvmAddresses ==
    {EvmAddress(SecpPub(k)) : k \in SecpKeys}
        \cup {ToUppercase(TrimStart0x(EvmAddress(SecpPub(1)))),
              <<48, 120>> \o Rep(48, EvmAddressHexLen - 1)}

SolanaSignature(pk32, challenge) == encode_base58(EdSign(pk32, AsBytes(challenge)))

SolanaAddress(pk32) == encode_base58(pk32)

\* the addresses a caller of the Solana provider passes: each wallet's, 32
\* bytes that are no curve point, a text that decodes to 31 bytes, and a text
\* with a character outside the alphabet
SolanaAddresses ==
    {SolanaAddress(EdPub32(k)) : k \in SecpKeys}
        \cup {encode_base58(Rep(0, 31) \o <<255>>),
              Rep(Base58Alphabet[1], SolanaPubkeyLen - 1),
              Rep(Base58Alphabet[1], SolanaPubkeyLen - 1) \o <<48>>}

(***************************************************************************)
(* The session.  msg is the signature data in flight with what is known    *)
(* about how it was made; prev and cur are the last two calls.             *)
(***************************************************************************)
Init ==
    /\ msg = None
    /\ prev = None
    /\ cur = None
    /\ scan = None
    /\ unit = None

\* a Xaman wallet signs a SignIn transaction and hands over the hex blob
XamanSign ==
    \E k \in Wallets, before \in FieldsBefore, memo \in MemoArrays :
        LET pubkey == XrplPub(k)
            unsigned == UnsignedBlob(before, pubkey, memo)
            signature == XrplSignature(pubkey, unsigned, Nonce(k))
        IN  /\ msg = None
            /\ msg' = Some([family |-> "xrpl",
                            data |-> HexEncodeUpper(SignedBlob(before, pubkey, signature, memo)),
                            signer |-> pubkey,
                            address |-> XrplAddress(pubkey),
                            challenge |-> <<>>,
                            unsigned |-> unsigned,
                            sig_at |-> Len(before) + 2 + Len(pubkey) + 2,
                            sig_len |-> Len(signature),
                            altered |-> "no"])
            /\ prev' = None
            /\ cur' = None
            /\ UNCHANGED <<scan, unit>>

\* the offsets into the signature payload a man in the middle overwrites
TamperOffsets(len) == {0, len \div 2, len - 1}

\* one byte of the signature payload is replaced by a different value, after
\* a first call has seen the data as the wallet made it
TamperSignature ==
    /\ IsSome(msg) /\ msg.val.altered = "no" /\ msg.val.family = "xrpl"
    /\ IsSome(cur) /\ prev = None
    /\ \E off \in TamperOffsets(msg.val.sig_len), delta \in {1, 128} :
        LET decoded == FromHex(msg.val.data).val
            k == msg.val.sig_at + off + 1
        IN  msg' = Some([msg.val EXCEPT
                            !.data = HexEncodeUpper(Replace(decoded, k, (decoded[k] + delta) % 256)),
                            !.altered = "sig"])
    /\ UNCHANGED <<prev, cur, scan, unit>>

\* the text of the signature data as damaged in transit.  Hex text: a
\* character that is no hex digit, the last character lost, the text cut
\* below the provider's minimum; a DER signature also with its s set to zero,
\* an EVM signature also with its v byte set to 29 and with the "0x" prefix
\* written twice; base58 text: a character outside the alphabet, the first character
\* lost
Corruptions(m) ==
    LET d == m.data
        n == Len(d)
    IN  IF m.family = "xrpl"
        THEN {Replace(d, 1, 90), SubSeq(d, 1, n - 1), SubSeq(d, 1, XamanMinLen - 2)}
        ELSE IF m.family = "web3auth"
        THEN {Replace(d, 1, 90), SubSeq(d, 1, n - 1), SubSeq(d, 1, Web3AuthMinLen - 2),
              HexEncodeLower(DerEncode(FromDer(FromHex(d).val).val[1], Rep(0, 32)))}
        ELSE IF m.family = "evm"
        THEN {Replace(d, n - 3, 90), SubSeq(d, 1, n - 1),
              SubSeq(d, 1, n - 2) \o <<49, 100>>,
              <<48, 120, 48, 120>> \o TrimStart0x(d)}
        ELSE {Replace(d, 1, 48), SubSeq(d, 2, n)}

Corrupt ==
    /\ IsSome(msg) /\ msg.val.altered = "no"
    /\ IsSome(cur) /\ prev = None
    /\ \E d \in Corruptions(msg.val) :
        msg' = Some([msg.val EXCEPT !.data = d, !.altered = "text"])
    /\ UNCHANGED <<prev, cur, scan, unit>>

Input(signature_data, expected_address, challenge) ==
    [signature_data |-> signature_data,
     expected_address |-> expected_address,
     challenge |-> challenge]

Call(entry, input, out) ==
    Some([entry |-> entry, input |-> input, on |-> msg.val.altered, out |-> out])

\* the session records two calls, and the second repeats the first with at
\* most one argument changed
MayCall(entry, input) ==
    /\ IsSome(msg)
    /\ prev = None
    /\ IsSome(cur) =>
        /\ cur.val.entry = entry
        /\ Cardinality({f \in {"signature_data", "expected_address", "challenge"} :
                            cur.val.input[f] # input[f]}) <= 1

XrplAddresses == {XrplAddress(p) : p \in XrplKeys} \cup {AttackerXrplAddress}

OptionalChallenges == {None} \cup {Some(c) : c \in ChallengeTexts}

\* a direct call of the library function verify_xrpl_signin
XrplSigninCall ==
    \E addr \in XrplAddresses, ch \in OptionalChallenges :
        LET input == Input(msg.val.data, addr, ch)
        IN  /\ MayCall("verify_xrpl_signin", input)
            /\ msg.val.family = "xrpl"
            /\ cur' = Call("verify_xrpl_signin", input,
                           verify_xrpl_signin(input.signature_data, input.expected_address,
                                              input.challenge))
            /\ prev' = cur
            /\ UNCHANGED <<msg, scan, unit>>

\* XamanProvider::verify
XamanCall ==
    \E addr \in XrplAddresses, ch \in OptionalChallenges :
        LET input == Input(msg.val.data, addr, ch)
        IN  /\ MayCall("xaman", input)
            /\ msg.val.family = "xrpl"
            /\ cur' = Call("xaman", input, XamanVerify(input))
            /\ prev' = cur
            /\ UNCHANGED <<msg, scan, unit>>

\* a Web3Auth wallet signs the challenge
Web3AuthSign ==
    \E k \in SecpKeys, c \in SignedChallenges :
        /\ msg = None
        /\ msg' = Some([family |-> "web3auth",
                        data |-> Web3AuthSignature(SecpPub(k), c, Web3AuthNonce(k)),
                        signer |-> SecpPub(k),
                        address |-> XrplAddress(SecpPub(k)),
                        challenge |-> c,
                        unsigned |-> <<>>, sig_at |-> 0, sig_len |-> 0,
                        altered |-> "no"])
        /\ prev' = None
        /\ cur' = None
        /\ UNCHANGED <<scan, unit>>

\* an EVM wallet answers personal_sign; the hex comes with or without "0x"
EvmSign ==
    \E k \in SecpKeys, c \in SignedChallenges, prefix \in {<<>>, <<48, 120>>} :
        /\ msg = None
        /\ msg' = Some([family |-> "evm",
                        data |-> prefix \o EvmSignature(SecpPub(k), c, Nonce(k)),
                        signer |-> SecpPub(k),
                        address |-> EvmAddress(SecpPub(k)),
                        challenge |-> c,
                        unsigned |-> <<>>, sig_at |-> 0, sig_len |-> 0,
                        altered |-> "no"])
        /\ prev' = None
        /\ cur' = None
        /\ UNCHANGED <<scan, unit>>

\* a Solana wallet signs the raw challenge
SolanaSign ==
    \E k \in SecpKeys, c \in SignedChallenges :
        /\ msg = None
        /\ msg' = Some([family |-> "solana",
                        data |-> SolanaSignature(EdPub32(k), c),
                        signer |-> EdPub32(k),
                        address |-> SolanaAddress(EdPub32(k)),
                        challenge |-> c,
                        unsigned |-> <<>>, sig_at |-> 0, sig_len |-> 0,
                        altered |-> "no"])
        /\ prev' = None
        /\ cur' = None
        /\ UNCHANGED <<scan, unit>>

\* Web3AuthProvider::verify
Web3AuthCall ==
    \E addr \in Web3AuthAddresses, ch \in OptionalChallenges :
        LET input == Input(msg.val.data, addr, ch)
        IN  /\ MayCall("web3auth", input)
            /\ msg.val.family = "web3auth"
            /\ cur' = Call("web3auth", input, Web3AuthVerify(input))
            /\ prev' = cur
            /\ UNCHANGED <<msg, scan, unit>>

\* WalletConnectProvider::verify
WalletConnectCall ==
    \E addr \in EvmAddresses, ch \in OptionalChallenges :
        LET input == Input(msg.val.data, addr, ch)
        IN  /\ MayCall("wallet_connect", input)
            /\ msg.val.family = "evm"
            /\ cur' = Call("wallet_connect", input, WalletConnectVerify(input))
            /\ prev' = cur
            /\ UNCHANGED <<msg, scan, unit>>

\* a direct call of the library function verify_evm_signature
EvmSignatureCall ==
    \E addr \in EvmAddresses, ch \in ChallengeTexts :
        LET input == Input(msg.val.data, addr, Some(ch))
        IN  /\ MayCall("verify_evm_signature", input)
            /\ msg.val.family = "evm"
            /\ cur' = Call("verify_evm_signature", input,
                           verify_evm_signature(input.signature_data, input.challenge.val,
                                                input.expected_address))
            /\ prev' = cur
            /\ UNCHANGED <<msg, scan, unit>>

\* BifrostProvider::verify
BifrostCall ==
    \E addr \in EvmAddresses, ch \in OptionalChallenges :
        LET input == Input(msg.val.data, addr, ch)
        IN  /\ MayCall("bifrost", input)
            /\ msg.val.family = "evm"
            /\ cur' = Call("bifrost", input, BifrostVerify(input))
            /\ prev' = cur
            /\ UNCHANGED <<msg, scan, unit>>

\* SolanaProvider::verify
SolanaCall ==
    \E addr \in SolanaAddresses, ch \in OptionalChallenges :
        LET input == Input(msg.val.data, addr, ch)
        IN  /\ MayCall("solana", input)
            /\ msg.val.family = "solana"
            /\ cur' = Call("solana", input, SolanaVerify(input))
            /\ prev' = cur
            /\ UNCHANGED <<msg, scan, unit>>

Next ==
    \/ XamanSign
    \/ Web3AuthSign
    \/ EvmSign
    \/ SolanaSign
    \/ TamperSignature
    \/ Corrupt
    \/ XrplSigninCall
    \/ XamanCall
    \/ Web3AuthCall
    \/ WalletConnectCall
    \/ BifrostCall
    \/ EvmSignatureCall
    \/ SolanaCall

Spec == Init /\ [][Next]_vars

(***************************************************************************)
(* The scan loops of parser/extract.rs and parser/reconstruct.rs, one loop *)
(* iteration per step, over the decoded bytes of a blob.  scan holds the   *)
(* function being run, the bytes, and the loop's local variables.          *)
(***************************************************************************)
MaxScanLen == 4

\* the bytes the loops tell apart (the tags and markers) and two small values
ScanAlphabet ==
    {0, 1, TagSigningPubKey, TagTxnSignature, MemoArrayFirst, MemoArraySecond,
     TagMemoData, TagMemoType, EndOfObject, EndOfArray}

ScanBlobs == UNION {[1..n -> ScanAlphabet] : n \in 0..MaxScanLen}

\* the serialization of a transaction given as its fields, each a record of
\* the tag (and length) bytes and the payload bytes
Serialized(fields) ==
    Flatten([k \in 1..Len(fields) |-> fields[k].head \o fields[k].payload])

\* the 0-based indices of the serialization that hold payload bytes
PayloadIndices(fields) ==
    UNION {LET start == Len(Serialized(SubSeq(fields, 1, k - 1))) + Len(fields[k].head)
           IN  start..(start + Len(fields[k].payload) - 1) : k \in 1..Len(fields)}

\* signed SignIn transactions with short fields: first nothing, a Sequence
\* (tag 0x24, four bytes, here 115) or an empty SigningPubKey field, then
\* SigningPubKey, TxnSignature, an Account whose
\* two bytes are 0x14 0x15 or 0xF9 0xEA, and an optional memo array with a
\* MemoData "C1" (also with a MemoType of three or two bytes before it); and
\* blobs whose memo array comes before SigningPubKey, between SigningPubKey
\* and TxnSignature, or is followed by a second memo array
ScanTransactions ==
    LET field(head, payload) == [head |-> head, payload |-> payload]
        before == {<<>>, <<field(<<36>>, <<0, 0, 0, 115>>)>>,
                   <<field(<<TagSigningPubKey, 0>>, <<>>)>>}
        account == {field(<<129, 2>>, <<20, 21>>),
                    field(<<129, 2>>, <<MemoArrayFirst, MemoArraySecond>>)}
        memos == {<<>>, <<field(MemoOpen, <<>>),
                          field(<<TagMemoData, 2>>, <<67, 49>>),
                          field(MemoClose, <<>>)>>,
                  <<field(MemoOpen, <<>>),
                    field(<<TagMemoType, 3>>, <<84, 85, 86>>),
                    field(<<TagMemoData, 2>>, <<67, 49>>),
                    field(MemoClose, <<>>)>>,
                  <<field(MemoOpen, <<>>),
                    field(<<TagMemoType, 2>>, <<84, 85>>),
                    field(<<TagMemoData, 2>>, <<67, 49>>),
                    field(MemoClose, <<>>)>>}
        late == <<field(MemoOpen, <<>>),
                  field(<<TagMemoData, 2>>, <<67, 49>>),
                  field(MemoClose, <<>>)>>
    IN  {b \o <<field(<<TagSigningPubKey, 2>>, <<2, 9>>),
                field(<<TagTxnSignature, 2>>, <<48, 7>>), a>> \o m :
             b \in before, a \in account, m \in memos}
            \cup {late \o <<field(<<TagSigningPubKey, 2>>, <<2, 9>>),
                            field(<<TagTxnSignature, 2>>, <<48, 7>>)>>,
                  <<field(<<TagSigningPubKey, 2>>, <<2, 9>>)>> \o late
                      \o <<field(<<TagTxnSignature, 2>>, <<48, 7>>)>>,
                  <<field(<<TagSigningPubKey, 2>>, <<2, 9>>),
                    field(<<TagTxnSignature, 2>>, <<48, 7>>)>> \o late
                      \o <<field(MemoOpen, <<>>),
                           field(<<TagMemoType, 3>>, <<84, 85, 86>>),
                           field(MemoClose, <<>>)>>}

\* the bytes are any short sequence over the alphabet, with no field
\* structure known, or the serialization of a transaction
ScanInit ==
    /\ msg = None /\ prev = None /\ cur = None /\ unit = None
    /\ \E input \in {[bytes |-> b, payload |-> {}] : b \in ScanBlobs}
                  \cup {[bytes |-> Serialized(t), payload |-> PayloadIndices(t)] :
                            t \in ScanTransactions} :
        \/ scan = Some([fn |-> "extract_fields", bytes |-> input.bytes,
                        payload |-> input.payload, st |-> ExtractInit])
        \/ scan = Some([fn |-> "reconstruct_unsigned_blob", bytes |-> input.bytes,
                        payload |-> input.payload, st |-> ReconInit])

\* the loop of the function has not been left
Scanning ==
    IF scan.val.fn = "extract_fields" THEN scan.val.st.mode # "done"
    ELSE scan.val.st.i < Len(scan.val.bytes)

\* one iteration (or the exit test) of the loops of extract_fields
ExtractIterate ==
    /\ scan.val.fn = "extract_fields" /\ Scanning
    /\ scan' = Some([scan.val EXCEPT !.st = ExtractStep(scan.val.bytes, scan.val.st)])
    /\ UNCHANGED <<msg, prev, cur, unit>>

\* one iteration of the loop of reconstruct_unsigned_blob
ReconIterate ==
    /\ scan.val.fn = "reconstruct_unsigned_blob" /\ Scanning
    /\ scan' = Some([scan.val EXCEPT !.st = ReconStep(scan.val.bytes, scan.val.st)])
    /\ UNCHANGED <<msg, prev, cur, unit>>

ScanNext ==
    \/ ExtractIterate
    \/ ReconIterate

\* the loops run on one thread with nothing to wait for: an iteration that
\* can be taken is taken
ScanSpec ==
    /\ ScanInit
    /\ [][ScanNext]_vars
    /\ WF_vars(ExtractIterate)
    /\ WF_vars(ReconIterate)

\* the 0-based indices at which the next iteration of extract_fields reads
\* bytes: bytes[i], the length byte, the captured slice, the second marker
ExtractAccess(bytes, st) ==
    LET n == Len(bytes)
        i == st.i
        capture == {i + 1} \cup
                   (IF i + 2 + At(bytes, i + 1) <= n
                    THEN (i + 2)..(i + 1 + At(bytes, i + 1)) ELSE {})
    IN  IF st.mode = "done" \/ i >= n THEN {}
        ELSE IF st.mode = "outer"
        THEN {i} \cup
             (IF At(bytes, i) = TagSigningPubKey /\ i + 1 < n /\ st.pk = <<>>
              THEN capture
              ELSE IF At(bytes, i) = TagTxnSignature /\ i + 1 < n /\ st.sig = <<>>
              THEN capture
              ELSE IF i + 1 < n /\ At(bytes, i) = MemoArrayFirst THEN {i + 1}
              ELSE {})
        ELSE {i} \cup
             (IF At(bytes, i) = EndOfObject \/ At(bytes, i) = EndOfArray THEN {}
              ELSE IF At(bytes, i) \in {TagMemoData, TagMemoType} /\ i + 1 < n
              THEN capture
              ELSE {})

\* the same for reconstruct_unsigned_blob: full_bytes[i], the two length
\* bytes, the copied slice, the byte after the SigningPubKey field
ReconAccess(bytes, st) ==
    LET n == Len(bytes)
        i == st.i
    IN  IF i >= n THEN {}
        ELSE {i} \cup
             (IF At(bytes, i) = TagSigningPubKey /\ i + 1 < n
              THEN {i + 1} \cup
                   (LET j == i + 2 + At(bytes, i + 1)
                    IN  IF j <= n
                        THEN (i..(j - 1)) \cup
                             (IF j < n
                              THEN {j} \cup (IF At(bytes, j) = TagTxnSignature /\ j + 1 < n
                                             THEN {j + 1} ELSE {})
                              ELSE {})
                        ELSE {})
              ELSE {})

(***************************************************************************)
(* The library functions called on their own: unit holds the function, its *)
(* arguments and its answer.                                               *)
(***************************************************************************)
\* public keys: none, an Ed25519 prefix alone, two bytes, the wallets' keys,
\* an Ed25519 key that is no point, 33 bytes that are no secp256k1 key
UnitPubkeys ==
    {<<>>, <<Ed25519Prefix>>, <<2, 3>>, <<Ed25519Prefix>> \o Rep(255, 32), <<4>> \o Rep(0, 32)}
        \cup XrplKeys

UnitMessages == {<<1>>, <<2>>}

UnitDigests == {sha512half(SigningPrefix \o m) : m \in UnitMessages}

\* signatures: none, a broken DER header, 64 zero bytes, and what each wallet
\* signs for each message
UnitSignatures ==
    {<<>>, <<48, 1>>, Rep(0, 64)}
        \cup {XrplSignature(XrplPub(k), m, Nonce(k)) : k \in Wallets, m \in UnitMessages}

\* compact signatures <<r, s>>: what each wallet signs under each recovery id,
\* the high-S twin of it, and r or s zero or all ones
UnitCompacts ==
    LET signed == {EcdsaSign(SecpPub(k), d, Nonce(k)[1], rid) :
                       k \in SecpKeys, d \in UnitDigests, rid \in 0..3}
        twin(rs) == <<rs[1], Rep(0, 28) \o <<1>>
                                 \o BigEndian(GroupOrder - Low24(rs[2]), 3)>>
    IN  signed \cup {twin(rs) : rs \in signed}
               \cup {<<Rep(0, 32), rs[2]>> : rs \in signed}
               \cup {<<rs[1], Rep(0, 32)>> : rs \in signed}
               \cup {<<rs[1], Rep(255, 32)>> : rs \in signed}

\* names given on the command line: the names and aliases in lower case, in
\* upper case and capitalised, and texts that name no wallet of the registry
UnitWalletNames ==
    LET known == {WalletName[f] : f \in DOMAIN WalletName}
        capital(t) == <<ToUppercase(t)[1]>> \o Tail(t)
    IN  known \cup {ToUppercase(t) : t \in known} \cup {capital(t) : t \in known}
              \cup {<<>>, <<120, 97, 109>>, WalletName.xaman \o <<32>>,
                    <<98, 105, 102, 114, 111, 115, 116>>, <<115, 111, 108, 97, 110, 97>>}

\* blobs handed to the parser functions as text: short field sequences, whole
\* and truncated, in upper-case and lower-case hex; the same texts with the
\* last digit missing, with a first character that is no hex digit, and with
\* a 0x prefix
UnitHexTexts ==
    LET blobs == {<<>>, <<0>>, <<TagTxnSignature, 1, 0>>, <<TagSigningPubKey, 5>>,
                  <<TagSigningPubKey, 0, TagTxnSignature, 0>>,
                  <<TagSigningPubKey, 0, TagTxnSignature, 9>>,
                  <<TagSigningPubKey, 1, 9, TagTxnSignature, 1, 7>>,
                  <<TagSigningPubKey, 2, 9, TagTxnSignature, 3, 7, 8>>,
                  <<TagSigningPubKey, 1, 9, 36, TagTxnSignature, 1, 7>>,
                  <<TagTxnSignature, 1, 7, TagSigningPubKey, 1, 9>>,
                  <<TagSigningPubKey, 1, 9, TagTxnSignature, 1, 7>>
                      \o MemoOpen \o <<TagMemoData, 1, 67, TagMemoType, 3, 1>>,
                  <<TagSigningPubKey, 1, 9, TagTxnSignature, 1, 7>>
                      \o MemoOpen \o <<TagMemoType, 2, 84, 85, TagMemoData, 1, 67>>
                      \o MemoClose}
        valid == {HexEncodeUpper(b) : b \in blobs} \cup {HexEncodeLower(b) : b \in blobs}
    IN  valid \cup {SubSeq(t, 1, Len(t) - 1) : t \in valid \ {<<>>}}
              \cup {<<103>> \o Tail(t) : t \in valid \ {<<>>}}
              \cup {<<48, 120>> \o t : t \in valid}

UnitInit ==
    /\ msg = None /\ prev = None /\ cur = None /\ scan = None
    /\ unit = None

VerifySignatureUnit ==
    /\ \E pubkey \in UnitPubkeys, signature \in UnitSignatures, digest \in UnitDigests :
        unit' = Some([fn |-> "verify_signature",
                      args |-> <<pubkey, signature, digest>>,
                      out |-> verify_signature(pubkey, signature, digest)])
    /\ UNCHANGED <<msg, prev, cur, scan>>

RecoverUnit ==
    /\ \E message_hash \in UnitDigests, signature_compact \in UnitCompacts :
        unit' = Some([fn |-> "recover_pubkey_from_signature",
                      args |-> <<message_hash, signature_compact>>,
                      out |-> recover_pubkey_from_signature(message_hash,
                                                            signature_compact)])
    /\ UNCHANGED <<msg, prev, cur, scan>>

IsValidUnit ==
    /\ \E a \in BOOLEAN, c \in BOOLEAN, v \in BOOLEAN,
          derived_address \in {<<>>, AttackerXrplAddress},
          found_challenge \in OptionalChallenges :
        LET r == VerificationResult(a, c, v, derived_address, found_challenge)
        IN  unit' = Some([fn |-> "is_valid", args |-> <<r>>, out |-> is_valid(r)])
    /\ UNCHANGED <<msg, prev, cur, scan>>

\* main.rs: get_wallet_provider(WalletType::from_str(wallet)) in a build with
\* some set of features
ResolveUnit ==
    /\ \E features \in SUBSET Features, s \in UnitWalletNames :
        LET wallet_type == from_str(features, s)
        IN  unit' = Some([fn |-> "from_str",
                          args |-> <<features, s>>,
                          out |-> IF wallet_type.ok
                                  THEN Ok([wallet_type |-> wallet_type.val,
                                           provider |-> get_wallet_provider(wallet_type.val)])
                                  ELSE Err(wallet_type.err)])
    /\ UNCHANGED <<msg, prev, cur, scan>>

ReconstructUnit ==
    /\ \E signed_hex \in UnitHexTexts :
        unit' = Some([fn |-> "reconstruct_unsigned_blob",
                      args |-> <<signed_hex>>,
                      out |-> reconstruct_unsigned_blob(signed_hex)])
    /\ UNCHANGED <<msg, prev, cur, scan>>

ExtractFieldsUnit ==
    /\ \E hex \in UnitHexTexts :
        unit' = Some([fn |-> "extract_fields",
                      args |-> <<hex>>,
                      out |-> extract_fields(hex)])
    /\ UNCHANGED <<msg, prev, cur, scan>>

UnitNext ==
    \/ ReconstructUnit
    \/ ExtractFieldsUnit
    \/ VerifySignatureUnit
    \/ RecoverUnit
    \/ IsValidUnit
    \/ ResolveUnit

UnitSpec == UnitInit /\ [][UnitNext]_vars

(***************************************************************************)
(* Properties.  A call is read through the record the session keeps of it. *)
(***************************************************************************)
XrplEntries == {"verify_xrpl_signin", "xaman"}

OtherEntries == {"web3auth", "wallet_connect", "bifrost", "solana"}

Result(call) == call.val.out.val

Succeeded(call) == IsSome(call) /\ call.val.out.ok

\* the fields extract_fields finds in the signature data of a call
FieldsOf(call) == extract_fields(call.val.input.signature_data).val

\* two calls were made and the arguments in `same` were the same in both
TwoCalls(same) ==
    /\ IsSome(prev) /\ IsSome(cur)
    /\ \A f \in same : prev.val.input[f] = cur.val.input[f]

\* the five fields of a result other than those in `but` are equal
SameResultBut(a, b, but) ==
    \A f \in {"address_valid", "challenge_valid", "signature_valid",
              "derived_address", "found_challenge"} \ but : a[f] = b[f]

\* validate_input of the provider behind an entry point
ValidateOf(entry, input) ==
    IF entry = "xaman" THEN XamanValidateInput(input)
    ELSE IF entry = "web3auth" THEN Web3AuthValidateInput(input)
    ELSE IF entry = "wallet_connect" THEN WalletConnectValidateInput(input)
    ELSE IF entry = "bifrost" THEN BifrostValidateInput(input)
    ELSE SolanaValidateInput(input)

\* C1: in verify_xrpl_signin, with an expected challenge, challenge_valid is
\* true exactly when the blob's challenge field is non-empty and equal, byte
\* for byte, to the expected challenge; with none it is true for every blob.
C1_ChallengeByteEqual ==
    (Succeeded(cur) /\ cur.val.entry = "verify_xrpl_signin") =>
        LET field == FieldsOf(cur).memo_data
            expected == cur.val.input.challenge
        IN  Result(cur).challenge_valid
                = IF IsSome(expected)
                  THEN field # <<>> /\ field = AsBytes(expected.val)
                  ELSE TRUE

\* C2: in verify_xrpl_signin, for a fixed blob and expected challenge, the
\* outcome is an error or a result whatever the expected address is; a change
\* of expected_address alone leaves signature_valid, challenge_valid,
\* derived_address and found_challenge as they were, and address_valid is true
\* exactly when expected_address is the address derived from the embedded key.
C2_AddressIndependent ==
    (TwoCalls({"signature_data", "challenge"}) /\ cur.val.entry = "verify_xrpl_signin") =>
        /\ prev.val.out.ok = cur.val.out.ok
        /\ cur.val.out.ok =>
            /\ SameResultBut(Result(prev), Result(cur), {"address_valid"})
            /\ Result(cur).derived_address = XrplAddress(FieldsOf(cur).signing_pubkey)
            /\ Result(cur).address_valid
                   = (cur.val.input.expected_address = Result(cur).derived_address)
            /\ Result(prev).address_valid
                   = (prev.val.input.expected_address = Result(prev).derived_address)
            /\ is_valid(Result(cur)) => Result(cur).address_valid

\* a blob that verified for its signer's address is checked against another
\* address: address_valid is false and signature_valid still true
C2_Witness ==
    /\ TwoCalls({"signature_data", "challenge"}) /\ cur.val.entry = "verify_xrpl_signin"
    /\ Succeeded(prev) /\ is_valid(Result(prev))
    /\ Succeeded(cur) /\ cur.val.input.expected_address # prev.val.input.expected_address
    /\ ~Result(cur).address_valid /\ Result(cur).signature_valid
    /\ ~is_valid(Result(cur))

\* C3: when one byte of the TxnSignature payload of a blob that verifies is
\* replaced by another value, the call returns a result with signature_valid
\* false and is_valid false, and derived_address, address_valid,
\* challenge_valid and found_challenge are those of the untampered blob.
C3_TamperedSignature ==
    (/\ TwoCalls({"expected_address", "challenge"})
     /\ cur.val.entry \in XrplEntries
     /\ prev.val.on = "no" /\ cur.val.on = "sig"
     /\ Succeeded(prev) /\ Result(prev).signature_valid) =>
        /\ cur.val.out.ok
        /\ ~Result(cur).signature_valid
        /\ ~is_valid(Result(cur))
        /\ SameResultBut(Result(prev), Result(cur), {"signature_valid"})

\* a blob that was valid in all three checks is tampered with and checked again
C3_Witness ==
    /\ TwoCalls({"expected_address", "challenge"})
    /\ cur.val.entry \in XrplEntries
    /\ prev.val.on = "no" /\ cur.val.on = "sig"
    /\ Succeeded(prev) /\ is_valid(Result(prev))
    /\ Succeeded(cur) /\ ~Result(cur).signature_valid
    /\ Result(cur).address_valid /\ Result(cur).challenge_valid

\* C4: for the Web3Auth, EVM and Solana families, a signature that verifies
\* for one challenge, checked against a different challenge, gives a result
\* with signature_valid false and is_valid false, not an error.
C4_WrongChallenge ==
    (/\ TwoCalls({"signature_data", "expected_address"})
     /\ cur.val.entry \in OtherEntries
     /\ Succeeded(prev) /\ is_valid(Result(prev))
     /\ IsSome(cur.val.input.challenge)
     /\ cur.val.input.challenge # prev.val.input.challenge) =>
        /\ cur.val.out.ok
        /\ ~Result(cur).signature_valid
        /\ ~is_valid(Result(cur))

\* a Web3Auth signature that verified is checked against another challenge
C4_Witness ==
    /\ TwoCalls({"signature_data", "expected_address"})
    /\ cur.val.entry = "web3auth"
    /\ Succeeded(prev) /\ is_valid(Result(prev))
    /\ IsSome(cur.val.input.challenge)
    /\ cur.val.input.challenge # prev.val.input.challenge
    /\ Succeeded(cur) /\ ~Result(cur).signature_valid

\* C5: for every unsigned serialization U with a SigningPubKey field, the
\* blob made by inserting a TxnSignature field directly after it satisfies
\* reconstruct_unsigned_blob(signed) = 53 54 58 00 followed by U, whatever
\* bytes the other fields and the memo text of U hold.
C5_RoundTrip ==
    (IsSome(msg) /\ msg.val.family = "xrpl" /\ msg.val.altered = "no") =>
        reconstruct_unsigned_blob(msg.val.data) = Ok(SigningPrefix \o msg.val.unsigned)

\* C6: two calls of one provider that differ only in expected_address return
\* the same derived_address.
C6_DerivedAddressIndependent ==
    (/\ TwoCalls({"signature_data", "challenge"})
     /\ Succeeded(prev) /\ Succeeded(cur)) =>
        Result(prev).derived_address = Result(cur).derived_address

\* C7: in the native-chain family, whenever the parsed blob has a non-empty
\* challenge field, found_challenge is Some(that text), whether or not the
\* caller supplied an expected challenge.
C7_FoundChallenge ==
    (Succeeded(cur) /\ cur.val.entry \in XrplEntries /\ FieldsOf(cur).memo_data # <<>>) =>
        Result(cur).found_challenge = Some(FromUtf8Lossy(FieldsOf(cur).memo_data))

\* C8: verify_xrpl_signin returns an error exactly when the input is no valid
\* hex or the parsed blob has an empty SigningPubKey or an empty
\* TxnSignature; every other input gives a result with its three booleans
\* set, a bad signature, address or challenge being a false boolean.
C8_ErrorsAreStructural ==
    (IsSome(cur) /\ cur.val.entry = "verify_xrpl_signin") =>
        LET decoded == FromHex(cur.val.input.signature_data)
            st == ExtractRun(decoded.val, ExtractInit)
            structural == ~decoded.ok \/ st.pk = <<>> \/ st.sig = <<>>
        IN  /\ cur.val.out.ok = ~structural
            /\ cur.val.out.ok =>
                {Result(cur).address_valid, Result(cur).challenge_valid,
                 Result(cur).signature_valid} \subseteq BOOLEAN

\* a blob that verified is damaged in transit and the second call is an error
C8_Witness ==
    /\ IsSome(prev) /\ IsSome(cur) /\ cur.val.entry = "verify_xrpl_signin"
    /\ Succeeded(prev) /\ is_valid(Result(prev))
    /\ cur.val.on = "text" /\ ~cur.val.out.ok

\* C9: for every provider and input, if validate_input returns an error then
\* verify returns an error.
C9_ValidationSurfaces ==
    (IsSome(cur) /\ cur.val.entry \in {"xaman"} \cup OtherEntries
        /\ ~ValidateOf(cur.val.entry, cur.val.input).ok) => ~cur.val.out.ok

\* WalletConnect is given a well-formed signature and an address that is not
\* 40 hex digits
C9_Witness ==
    /\ IsSome(cur) /\ cur.val.entry = "wallet_connect" /\ cur.val.on = "no"
    /\ IsSome(cur.val.input.challenge)
    /\ ~WalletConnectValidateInput(cur.val.input).ok
    /\ ~cur.val.out.ok

\* C10: the Web3Auth, WalletConnect, Bifrost and Solana providers return an
\* error when challenge is None, and every result they return has
\* challenge_valid true and found_challenge = Some(the supplied challenge).
C10_ChallengeRequired ==
    (IsSome(cur) /\ cur.val.entry \in OtherEntries) =>
        /\ ~IsSome(cur.val.input.challenge) => ~cur.val.out.ok
        /\ cur.val.out.ok =>
            /\ Result(cur).challenge_valid
            /\ Result(cur).found_challenge = cur.val.input.challenge

\* Web3Auth finds no candidate for the expected address: the address and the
\* signature checks fail and the challenge fields are still set
C10_Witness ==
    /\ Succeeded(cur) /\ cur.val.entry = "web3auth"
    /\ ~Result(cur).address_valid /\ ~Result(cur).signature_valid
    /\ Result(cur).challenge_valid
    /\ Result(cur).found_challenge = cur.val.input.challenge

\* C11: verify_web3auth_signature walks the recovered candidates in order and
\* accepts the first one whose derived address equals expected_address, with
\* address_valid true and derived_address that address; when no candidate
\* matches, also when there is no candidate at all, it returns Ok with
\* address_valid false, signature_valid false and an empty derived_address
Web3AuthCandidates(call) ==
    recover_pubkey_from_signature(
        hash_challenge_for_web3auth(call.val.input.challenge.val),
        FromDer(FromHex(call.val.input.signature_data).val).val)

Web3AuthReachesCandidates(call) ==
    /\ IsSome(call) /\ call.val.entry = "web3auth"
    /\ Web3AuthValidateInput(call.val.input).ok
    /\ FromHex(call.val.input.signature_data).ok
    /\ IsSome(FromDer(FromHex(call.val.input.signature_data).val))

C11_FirstMatchingCandidate ==
    \A call \in {prev, cur} :
        Web3AuthReachesCandidates(call) =>
            LET candidates == Web3AuthCandidates(call)
                address == [k \in 1..Len(candidates) |->
                                encode_account_id(account_id_from_pubkey(candidates[k]))]
                matching == {k \in 1..Len(candidates) :
                                address[k] = call.val.input.expected_address}
            IN  /\ call.val.out.ok
                /\ Len(candidates) <= 4
                /\ IF matching = {}
                   THEN /\ ~Result(call).address_valid
                        /\ ~Result(call).signature_valid
                        /\ Result(call).derived_address = <<>>
                   ELSE /\ Result(call).address_valid
                        /\ \E k \in matching :
                            /\ \A j \in matching : k <= j
                            /\ Result(call).derived_address = address[k]

\* a call that matched a candidate, then a call on a signature that recovers
\* no candidate at all and is answered with the no-match result
C11_Witness ==
    /\ Web3AuthReachesCandidates(prev) /\ Web3AuthReachesCandidates(cur)
    /\ Len(Web3AuthCandidates(prev)) >= 2
    /\ Result(prev).address_valid
    /\ Web3AuthCandidates(cur) = <<>>
    /\ Succeeded(cur) /\ ~Result(cur).address_valid

\* C12: in the EVM family a signature_data that, after removing one optional
\* leading "0x", is not valid hex or does not decode to exactly 65 bytes
\* always gives an error, from verify_evm_signature and from the providers'
\* verify, never a VerificationResult
C12_MalformedEvmSignatureErrs ==
    \A call \in {prev, cur} :
        (IsSome(call) /\ call.val.entry \in {"verify_evm_signature", "wallet_connect", "bifrost"}) =>
            LET d == call.val.input.signature_data
                stripped == IF Len(d) >= 2 /\ d[1] = 48 /\ d[2] = 120
                            THEN SubSeq(d, 3, Len(d)) ELSE d
                decoded == FromHex(stripped)
            IN  (~decoded.ok \/ Len(decoded.val) # EvmSignatureLen) => ~call.val.out.ok

\* C13: verify_evm_signature compares the recovered address with the expected
\* one without regard to letter case or to the "0x" prefix: for one signature
\* and challenge, every case variant of the same 40 hex digits, with or without
\* "0x", gives the same address_valid, and derived_address is always the
\* lower-case "0x"-prefixed recovered address
EvmAddressDigits(address) ==
    LET bare == IF Len(address) >= 2 /\ address[1] = 48 /\ address[2] = 120
                THEN SubSeq(address, 3, Len(address)) ELSE address
    IN  [k \in 1..Len(bare) |-> IF bare[k] \in 65..70 THEN bare[k] + 32 ELSE bare[k]]

SameEvmAddress(a, b) ==
    /\ EvmAddressDigits(a) = EvmAddressDigits(b)
    /\ Len(EvmAddressDigits(a)) = EvmAddressHexLen
    /\ AllHex(EvmAddressDigits(a))

C13_CaseAndPrefixInsensitive ==
    /\ (/\ TwoCalls({"signature_data", "challenge"})
        /\ cur.val.entry = "verify_evm_signature"
        /\ Succeeded(prev) /\ Succeeded(cur)
        /\ SameEvmAddress(prev.val.input.expected_address,
                          cur.val.input.expected_address))
       => Result(prev).address_valid = Result(cur).address_valid
    /\ \A call \in {prev, cur} :
        (Succeeded(call) /\ call.val.entry = "verify_evm_signature") =>
            LET sig == FromHex(TrimStart0x(call.val.input.signature_data)).val
                recovered == SignatureRecover(
                                 sig, hash_message(AsBytes(call.val.input.challenge.val)))
            IN  Result(call).derived_address = <<48, 120>> \o HexEncodeLower(recovered.val)

\* the signer's address given once in lower case with "0x" and once in upper
\* case without it, accepted both times
C13_Witness ==
    /\ TwoCalls({"signature_data", "challenge"})
    /\ cur.val.entry = "verify_evm_signature"
    /\ Succeeded(prev) /\ Succeeded(cur)
    /\ prev.val.input.expected_address # cur.val.input.expected_address
    /\ SameEvmAddress(prev.val.input.expected_address, cur.val.input.expected_address)
    /\ \E k \in 1..Len(cur.val.input.expected_address) :
        cur.val.input.expected_address[k] \in 65..70
    /\ Result(prev).address_valid /\ Result(cur).address_valid

\* C14: for every byte sequence the scan loops of extract_fields and of
\* reconstruct_unsigned_blob terminate, the scan index strictly increases on
\* every iteration, and no read or slice is taken at an index outside the
\* byte sequence
ScanAccess ==
    IF scan.val.fn = "extract_fields" THEN ExtractAccess(scan.val.bytes, scan.val.st)
    ELSE ReconAccess(scan.val.bytes, scan.val.st)

C14_ScanLoopsTerminate ==
    /\ [](ScanAccess \subseteq 0..(Len(scan.val.bytes) - 1))
    /\ [](scan.val.st.i <= Len(scan.val.bytes))
    /\ [][scan'.val.st.i > scan.val.st.i \/ ~Scanning']_vars
    /\ <>(~Scanning)

\* extract_fields has left its loops on a blob whose last byte is a tag, after
\* an iteration that found a length byte too large for the bytes left
C14_Witness ==
    /\ scan.val.fn = "extract_fields" /\ ~Scanning
    /\ Len(scan.val.bytes) = MaxScanLen
    /\ scan.val.bytes[1] = TagSigningPubKey /\ scan.val.bytes[2] = TagSigningPubKey
    /\ scan.val.bytes[MaxScanLen] = TagTxnSignature
    /\ scan.val.st.pk = <<>> /\ scan.val.st.sig = <<>>

\* C15: verify_signature with an empty public key returns false for every
\* signature and digest; it always returns a boolean, and every parse failure
\* (DER signature, public key, Ed25519 key) gives false
C15_VerifySignatureTotal ==
    (IsSome(unit) /\ unit.val.fn = "verify_signature") =>
        LET pubkey == unit.val.args[1]
            signature == unit.val.args[2]
            ed == pubkey # <<>> /\ pubkey[1] = Ed25519Prefix
            parse_failure ==
                \/ pubkey = <<>>
                \/ ed /\ (Len(pubkey) # 33 \/ Len(signature) # 64)
                \/ ed /\ Len(pubkey) = 33 /\ ~EdPubkeyOk(Slice(pubkey, 1, 32))
                \/ ~ed /\ (~IsSome(FromDer(signature)) \/ ~SecpPubkeyOk(pubkey))
        IN  /\ unit.val.out \in BOOLEAN
            /\ parse_failure => unit.val.out = FALSE

\* an empty key with a signature that verifies under a wallet's key
C15_Witness ==
    /\ IsSome(unit) /\ unit.val.fn = "verify_signature"
    /\ unit.val.args[1] = <<>>
    /\ \E pubkey \in XrplKeys :
        verify_signature(pubkey, unit.val.args[2], unit.val.args[3])
    /\ unit.val.out = FALSE

\* C16: recover_pubkey_from_signature returns between 0 and 4 candidates: one
\* for each recovery id in 0..3 that parses and recovers, in ascending order
\* of the recovery id; an id that fails is skipped
C16_CandidatesInOrder ==
    (IsSome(unit) /\ unit.val.fn = "recover_pubkey_from_signature") =>
        LET message_hash == unit.val.args[1]
            r == unit.val.args[2][1]
            sc == unit.val.args[2][2]
            recovers == {rid \in 0..3 : IsSome(RecoverKey(message_hash, r, sc, rid))}
            rank(rid) == Cardinality({x \in recovers : x <= rid})
        IN  /\ Len(unit.val.out) = Cardinality(recovers)
            /\ Len(unit.val.out) \in 0..4
            /\ \A rid \in recovers :
                unit.val.out[rank(rid)] = RecoverKey(message_hash, r, sc, rid).val

\* a signature that recovers under the ids 0 and 1 and fails under 2 and 3
C16_Witness ==
    /\ IsSome(unit) /\ unit.val.fn = "recover_pubkey_from_signature"
    /\ Len(unit.val.out) = 2
    /\ unit.val.out[1] # unit.val.out[2]
    /\ ~IsSome(RecoverKey(unit.val.args[1], unit.val.args[2][1], unit.val.args[2][2], 3))

\* C17: is_valid() is true exactly when address_valid, challenge_valid and
\* signature_valid are all true; no other field changes it
C17_IsValidIsConjunction ==
    (IsSome(unit) /\ unit.val.fn = "is_valid") =>
        LET r == unit.val.args[1]
        IN  unit.val.out = (r.address_valid /\ r.challenge_valid /\ r.signature_valid)

\* a result with only challenge_valid false, an address and a found challenge
C17_Witness ==
    /\ IsSome(unit) /\ unit.val.fn = "is_valid"
    /\ unit.val.args[1].address_valid /\ unit.val.args[1].signature_valid
    /\ ~unit.val.args[1].challenge_valid
    /\ unit.val.args[1].derived_address # <<>>
    /\ IsSome(unit.val.args[1].found_challenge)
    /\ unit.val.out = FALSE

\* C19: the registry maps each wallet type to exactly one provider: from_str
\* is case-insensitive, Ok for every name supported_wallets() lists and for
\* the aliases xumm and walletconnect, Err for every other text, and
\* get_wallet_provider gives the provider of the wallet's family, so every
\* supported name resolves to a provider
C19_RegistryResolves ==
    (IsSome(unit) /\ unit.val.fn = "from_str") =>
        LET features == unit.val.args[1]
            s == unit.val.args[2]
            folded == [k \in 1..Len(s) |-> IF s[k] \in 65..90 THEN s[k] + 32 ELSE s[k]]
            family == [xaman |-> <<"xaman", "Xaman", "XamanProvider">>,
                       xumm |-> <<"xaman", "Xaman", "XamanProvider">>,
                       web3auth |-> <<"web3auth", "Web3Auth", "Web3AuthProvider">>,
                       wallet_connect |->
                           <<"wallet_connect", "WalletConnect", "WalletConnectProvider">>,
                       walletconnect |->
                           <<"wallet_connect", "WalletConnect", "WalletConnectProvider">>]
            named == {f \in DOMAIN WalletName :
                          WalletName[f] = folded /\ family[f][1] \in features}
            listed == supported_wallets(features)
        IN  /\ unit.val.out.ok <=> named # {}
            /\ \A f \in named :
                /\ unit.val.out.val.wallet_type = family[f][2]
                /\ unit.val.out.val.provider = family[f][3]
            /\ {listed[k] : k \in 1..Len(listed)}
                   = {WalletName[f] : f \in features}
            /\ \A f \in features :
                LET wallet_type == from_str(features, WalletName[f])
                IN  /\ wallet_type.ok
                    /\ get_wallet_provider(wallet_type.val) = family[f][3]

\* the alias of Xaman in upper case, resolved to the Xaman provider in a
\* build with every feature
C19_Witness ==
    /\ IsSome(unit) /\ unit.val.fn = "from_str"
    /\ unit.val.args[1] = Features
    /\ unit.val.args[2] = ToUppercase(WalletName.xumm)
    /\ unit.val.out.ok
    /\ unit.val.out.val.provider = "XamanProvider"

C20_PayloadBytesAreNotTags ==
    (IsSome(scan) /\ scan.val.fn = "extract_fields" /\ Scanning
        /\ scan.val.st.i < Len(scan.val.bytes)) =>
        LET st == scan.val.st
            skipped == [st EXCEPT !.i = st.i + 1]
        IN  ExtractStep(scan.val.bytes, st) # skipped => st.i \notin scan.val.payload

\* C21: extract_fields captures SigningPubKey and TxnSignature from the first
\* occurrence of tag 0x73 and of tag 0x74 only: once the first occurrence has
\* been scanned, also one with a zero-length or truncated payload, no later
\* occurrence of the same tag sets or changes the captured value
C21_FirstOccurrenceOnly ==
    (IsSome(scan) /\ scan.val.fn = "extract_fields") =>
        LET bytes == scan.val.bytes
            n == Len(bytes)
            RECURSIVE FirstTag(_, _)
            FirstTag(st, tag) ==
                IF st.mode # "outer" \/ st.i >= n THEN None
                ELSE IF At(bytes, st.i) = tag /\ st.i + 1 < n THEN Some(st.i)
                ELSE FirstTag(ExtractStep(bytes, st), tag)
            payload(at) ==
                IF at + 2 + At(bytes, at + 1) <= n
                THEN Slice(bytes, at + 2, At(bytes, at + 1)) ELSE <<>>
            pk_at == FirstTag(ExtractInit, TagSigningPubKey)
            sig_at == FirstTag(ExtractInit, TagTxnSignature)
        IN  /\ (IsSome(pk_at) /\ scan.val.st.i > pk_at.val)
                   => scan.val.st.pk = payload(pk_at.val)
            /\ (IsSome(sig_at) /\ scan.val.st.i > sig_at.val)
                   => scan.val.st.sig = payload(sig_at.val)

\* C22: parser and reconstructor agree on the signature: on every blob for
\* which extract_fields returns a non-empty txn_signature,
\* reconstruct_unsigned_blob removes exactly the tag, length and payload bytes
\* of the field extract_fields returned, and nothing else
C22_ParserAndReconstructorAgree ==
    (IsSome(scan) /\ scan.val.fn = "extract_fields" /\ ~Scanning
        /\ scan.val.st.sig # <<>>) =>
        LET bytes == scan.val.bytes
            n == Len(bytes)
            RECURSIVE CapturedAt(_)
            CapturedAt(st) ==
                IF ExtractStep(bytes, st).sig # <<>> THEN st.i
                ELSE CapturedAt(ExtractStep(bytes, st))
            at == CapturedAt(ExtractInit)
            after == at + 2 + Len(scan.val.st.sig)
        IN  ReconRun(bytes, ReconInit).out
                = SubSeq(bytes, 1, at) \o SubSeq(bytes, after + 1, n)

C24_ReconstructOnlyFailsOnHex ==
    (IsSome(unit) /\ unit.val.fn = "reconstruct_unsigned_blob") =>
        LET decoded == FromHex(unit.val.args[1])
            out == unit.val.out
        IN  /\ out.ok <=> decoded.ok
            /\ ~out.ok => out.err = decoded.err
            /\ out.ok =>
                   /\ Len(out.val) >= 4
                   /\ SubSeq(out.val, 1, 4) = <<83, 84, 88, 0>>
                   /\ ~ReconRun(decoded.val, ReconInit).removed
                          => out.val = <<83, 84, 88, 0>> \o decoded.val

\* a blob that holds a TxnSignature field but none after a SigningPubKey field
\* was reconstructed: prefix and the whole input
C24_Witness ==
    /\ IsSome(unit) /\ unit.val.fn = "reconstruct_unsigned_blob"
    /\ unit.val.out.ok
    /\ FromHex(unit.val.args[1]).val = <<TagTxnSignature, 1, 0>>
    /\ Len(unit.val.out.val) = 7

\* C25: extract_fields returns Ok for every valid hex string; a recognized
\* tag whose length byte announces more payload bytes than remain assigns
\* nothing to its field (it stays empty or keeps its previous value), raises
\* no error, and the scan continues after the length byte
C25_TruncatedFieldIsSkipped ==
    [][(IsSome(scan) /\ scan.val.fn = "extract_fields" /\ Scanning) =>
          LET bytes == scan.val.bytes
              n == Len(bytes)
              st == scan.val.st
              i == st.i
              recognized ==
                  /\ i + 1 < n
                  /\ \/ st.mode = "outer" /\ At(bytes, i) = TagSigningPubKey /\ st.pk = <<>>
                     \/ st.mode = "outer" /\ At(bytes, i) = TagTxnSignature /\ st.sig = <<>>
                     \/ st.mode = "memo" /\ At(bytes, i) = TagMemoData
                     \/ st.mode = "memo" /\ At(bytes, i) = TagMemoType
          IN  /\ extract_fields(HexEncodeUpper(bytes)).ok
              /\ extract_fields(HexEncodeLower(bytes)).ok
              /\ (recognized /\ i + 2 + At(bytes, i + 1) > n)
                     => scan' = Some([scan.val EXCEPT !.st.i = i + 2])]_vars

\* a SigningPubKey tag at the start announced more bytes than the blob has:
\* nothing was captured and the scan stands after the length byte
C25_Witness ==
    /\ IsSome(scan) /\ scan.val.fn = "extract_fields"
    /\ Len(scan.val.bytes) >= 3
    /\ At(scan.val.bytes, 0) = TagSigningPubKey
    /\ 2 + At(scan.val.bytes, 1) > Len(scan.val.bytes)
    /\ scan.val.st.i = 2
    /\ scan.val.st.pk = <<>>
    /\ extract_fields(HexEncodeUpper(scan.val.bytes)).ok

\* C26: the signing_pubkey returned by extract_fields is either empty or
\* exactly 33 bytes long, for every input blob; no captured field is longer
\* than 255 bytes
C26_PubkeyEmptyOr33Bytes ==
    (IsSome(scan) /\ scan.val.fn = "extract_fields" /\ ~Scanning) =>
        LET fields == extract_fields(HexEncodeUpper(scan.val.bytes)).val
        IN  /\ fields.signing_pubkey = scan.val.st.pk
            /\ Len(fields.signing_pubkey) \in {0, 33}
            /\ Len(fields.signing_pubkey) <= 255
            /\ Len(fields.txn_signature) <= 255
            /\ Len(fields.memo_data) <= 255

\* C27: the challenge field returned by extract_fields is the MemoType (0x7D)
\* payload when it is strictly longer than the MemoData (0x7C) payload and the
\* MemoData payload otherwise (also when equally long or both empty); the two
\* are captured only inside the memo array, between the 0xF9 0xEA marker and
\* the first 0xE1 or 0xF1 at a scan position
C27_ChallengeFieldChoice ==
    [][(IsSome(scan) /\ scan.val.fn = "extract_fields" /\ Scanning) =>
          LET bytes == scan.val.bytes
              st == scan.val.st
              i == st.i
              next == scan'.val.st
              payload == Slice(bytes, i + 2, At(bytes, i + 1))
              inside == st.mode = "memo" /\ i < Len(bytes)
                            /\ At(bytes, i) \notin {EndOfObject, EndOfArray}
              returned == extract_fields(HexEncodeUpper(bytes)).val.memo_data
          IN  /\ next.md # st.md =>
                     inside /\ At(bytes, i) = TagMemoData /\ next.md = payload
              /\ next.mt # st.mt =>
                     inside /\ At(bytes, i) = TagMemoType /\ next.mt = payload
              /\ st.mode = "outer" => st.md = <<>> /\ st.mt = <<>>
              /\ next.mode = "done" =>
                     returned = IF Len(next.mt) > Len(next.md) THEN next.mt ELSE next.md]_vars

\* extract_fields ended on a memo whose MemoType and MemoData are equally
\* long and differ: the loop holds both
C27_Witness ==
    /\ IsSome(scan) /\ scan.val.fn = "extract_fields" /\ ~Scanning
    /\ scan.val.st.md # <<>>
    /\ Len(scan.val.st.mt) = Len(scan.val.st.md)
    /\ scan.val.st.mt # scan.val.st.md
    /\ extract_fields(HexEncodeUpper(scan.val.bytes)).val.memo_data = scan.val.st.md

\* C28: extract_fields stops scanning as soon as the first memo array has
\* been processed: once the first 0xF9 0xEA marker is reached the scan always
\* ends, at the first 0xE1 or 0xF1 of the memo sub-scan or at the end of the
\* input; no byte after that is examined, so a SigningPubKey or TxnSignature
\* after the marker and a second memo array are never captured, and
\* verify_xrpl_signin reports a missing field when the key or the signature
\* was not found before the marker
C28_StopsAfterFirstMemoArray ==
    /\ [][(IsSome(scan) /\ scan.val.fn = "extract_fields" /\ Scanning) =>
              LET bytes == scan.val.bytes
                  st == scan.val.st
                  next == scan'.val.st
                  missing == next.pk = <<>> \/ next.sig = <<>>
                  result == verify_xrpl_signin(HexEncodeUpper(bytes), AttackerXrplAddress, None)
              IN  /\ st.mode = "memo" =>
                         /\ next.pk = st.pk /\ next.sig = st.sig
                         /\ next.mode \in {"memo", "done"}
                  /\ (st.mode = "memo" /\ st.i < Len(bytes)
                          /\ At(bytes, st.i) \in {EndOfObject, EndOfArray}) =>
                         next = [st EXCEPT !.mode = "done"]
                  /\ next.mode = "done" =>
                         /\ ExtractAccess(bytes, next) = {}
                         /\ missing => result = Err("Missing SigningPubKey or TxnSignature")
                         /\ ~missing => (~result.ok => result.err # "Missing SigningPubKey or TxnSignature")]_vars
    /\ (IsSome(scan) /\ scan.val.fn = "extract_fields" /\ scan.val.st.mode = "memo")
           ~> (IsSome(scan) /\ scan.val.fn = "extract_fields" /\ scan.val.st.mode = "done")

\* the scan ended at the end marker of a memo array that stands before a
\* SigningPubKey field with a payload: the key was not captured
C28_Witness ==
    /\ IsSome(scan) /\ scan.val.fn = "extract_fields" /\ ~Scanning
    /\ scan.val.st.i < Len(scan.val.bytes)
    /\ At(scan.val.bytes, scan.val.st.i) = EndOfObject
    /\ scan.val.st.md # <<>>
    /\ scan.val.st.pk = <<>>
    /\ \E k \in (scan.val.st.i + 1)..(Len(scan.val.bytes) - 4) :
           /\ k \notin scan.val.payload
           /\ At(scan.val.bytes, k) = TagSigningPubKey
           /\ At(scan.val.bytes, k + 1) = 2

\* C29: verify_signature dispatches on the first byte of the public key only:
\* a key that starts with 0xED is checked with Ed25519 and never with ECDSA,
\* any other non-empty key with ECDSA over a DER signature and never with
\* Ed25519; on the Ed25519 path a key that is not 33 bytes long or a signature
\* that is not 64 bytes long yields false
C29_DispatchOnFirstKeyByte ==
    (IsSome(unit) /\ unit.val.fn = "verify_signature" /\ unit.val.args[1] # <<>>) =>
        LET pubkey == unit.val.args[1]
            signature == unit.val.args[2]
            digest == unit.val.args[3]
            der == FromDer(signature)
            ed25519 == /\ Len(pubkey) = 33 /\ Len(signature) = 64
                       /\ EdPubkeyOk(Slice(pubkey, 1, 32))
                       /\ VerifyEd(Slice(pubkey, 1, 32), digest, signature)
            ecdsa == /\ IsSome(der)
                     /\ SecpPubkeyOk(pubkey)
                     /\ VerifyEcdsa(digest, der.val[1], der.val[2], pubkey)
        IN  IF pubkey[1] = 237
            THEN /\ unit.val.out = ed25519
                 /\ (Len(pubkey) # 33 \/ Len(signature) # 64) => unit.val.out = FALSE
            ELSE unit.val.out = ecdsa

\* an Ed25519 key accepted its signature, which is no DER signature
C29_Witness ==
    /\ IsSome(unit) /\ unit.val.fn = "verify_signature"
    /\ unit.val.args[1] # <<>>
    /\ unit.val.args[1][1] = 237
    /\ ~IsSome(FromDer(unit.val.args[2]))
    /\ unit.val.out = TRUE

====
